---------------------------- MODULE Spec2Model ----------------------------
(***************************************************************************)
(* nftables-analyzer: the matcher predicates (evaluator/ip_matcher.py),    *)
(* the rule evaluator and the redundancy analyser                          *)
(* (evaluator/rule_evaluator.py).                                          *)
(*                                                                         *)
(* Representation.  A Python str that the code parses, lower-cases or      *)
(* searches is a sequence of one-character strings, so that parsing is     *)
(* computed and not assumed.  None is the one-element sequence <<"None">>, *)
(* which no text equals because "None" is not a character.  An optional    *)
(* int is <<>> (None) or <<n>>.  The outcome of a call is Ret(v) or        *)
(* Raise(e), so that an exception escaping a function is a value the       *)
(* properties can see.                                                     *)
(***************************************************************************)
EXTENDS Integers, Sequences, FiniteSets, TLC

VARIABLES call, ret, rules, query, result, redundant

vars == <<call, ret, rules, query, result, redundant>>

None == <<"None">>

NoInt == <<>>

Ret(v) == [exc |-> "none", value |-> v]

Raise(e) == [exc |-> e]

\* `except exc: return v` around a block whose outcome is o.
Except(o, exc, v) == IF o.exc = exc THEN Ret(v) ELSE o

\* `x = <o>; <F(x)>`: an exception raised by o ends the block.
Then(o, F(_)) == IF o.exc # "none" THEN o ELSE F(o.value)

\* `x = <v>; <F(x)>` for a value that cannot raise.
Let(v, F(_)) == F(v)

\* `try: return <a>` followed by `except ...: return <b>`.
OrElse(a, b) == IF a.exc = "none" THEN a ELSE b

-----------------------------------------------------------------------------
(* Python str and int primitives used by the code.                         *)

Digits == {"0", "1", "2", "3", "4", "5", "6", "7", "8", "9"}

HexDigits == Digits \cup {"a", "b", "c", "d", "e", "f", "A", "B", "C", "D", "E", "F"}

\* `c in s` for a one-character c.
Has(s, c) == \E i \in 1..Len(s) : s[i] = c

RECURSIVE Split(_, _)
\* s.split(c): the pieces of s between the occurrences of c.
Split(s, c) ==
    IF ~Has(s, c) THEN <<s>>
    ELSE LET i == CHOOSE k \in 1..Len(s) : s[k] = c /\ \A j \in 1..(k - 1) : s[j] # c
         IN  <<SubSeq(s, 1, i - 1)>> \o Split(SubSeq(s, i + 1, Len(s)), c)

LowerChar(c) ==
    CASE c = "A" -> "a" [] c = "C" -> "c" [] c = "D" -> "d" [] c = "F" -> "f"
      [] c = "I" -> "i" [] c = "M" -> "m" [] c = "N" -> "n" [] c = "O" -> "o"
      [] c = "P" -> "p" [] c = "R" -> "r" [] c = "T" -> "t" [] c = "U" -> "u"
      [] c = "W" -> "w" [] c = "Y" -> "y" [] OTHER -> c

\* s.lower()
Lower(s) == [i \in 1..Len(s) |-> LowerChar(s[i])]

HexVal(c) ==
    CASE c = "0" -> 0 [] c = "1" -> 1 [] c = "2" -> 2 [] c = "3" -> 3 [] c = "4" -> 4
      [] c = "5" -> 5 [] c = "6" -> 6 [] c = "7" -> 7 [] c = "8" -> 8 [] c = "9" -> 9
      [] c \in {"a", "A"} -> 10 [] c \in {"b", "B"} -> 11 [] c \in {"c", "C"} -> 12
      [] c \in {"d", "D"} -> 13 [] c \in {"e", "E"} -> 14 [] c \in {"f", "F"} -> 15

RECURSIVE ToNat(_, _)
\* The value of a non-empty digit string in the given base.
ToNat(s, base) ==
    IF Len(s) = 0 THEN 0
    ELSE ToNat(SubSeq(s, 1, Len(s) - 1), base) * base + HexVal(s[Len(s)])

RECURSIVE Pow2(_)
Pow2(k) == IF k <= 0 THEN 1 ELSE 2 * Pow2(k - 1)

RECURSIVE Strip(_)
\* s.strip() for the blank character.
Strip(s) ==
    IF Len(s) > 0 /\ s[1] = " " THEN Strip(Tail(s))
    ELSE IF Len(s) > 0 /\ s[Len(s)] = " " THEN Strip(SubSeq(s, 1, Len(s) - 1))
    ELSE s

\* s with its underscores removed.
NoUnderscore(s) == SelectSeq(s, LAMBDA c : c # "_")

\* int(s): blanks stripped, an optional sign, decimal digits that single
\* underscores may separate; anything else raises ValueError.
IntDigitsOk(u) ==
    /\ Len(u) > 0
    /\ \A i \in 1..Len(u) : u[i] \in Digits \cup {"_"}
    /\ u[1] # "_" /\ u[Len(u)] # "_"
    /\ \A i \in 1..(Len(u) - 1) : ~(u[i] = "_" /\ u[i + 1] = "_")

\* int(t) for a stripped t.
IntOfStripped(t) ==
    IF Len(t) > 0 /\ t[1] = "-"
    THEN IF IntDigitsOk(Tail(t)) THEN Ret(0 - ToNat(NoUnderscore(Tail(t)), 10))
         ELSE Raise("ValueError")
    ELSE IF Len(t) > 0 /\ t[1] = "+"
    THEN IF IntDigitsOk(Tail(t)) THEN Ret(ToNat(NoUnderscore(Tail(t)), 10))
         ELSE Raise("ValueError")
    ELSE IF IntDigitsOk(t) THEN Ret(ToNat(NoUnderscore(t), 10))
    ELSE Raise("ValueError")

py_int(s) == IntOfStripped(Strip(s))

-----------------------------------------------------------------------------
(* Python's ipaddress module, as far as the code uses it: ip_address(str), *)
(* ip_network(str, strict=False), `address in network`, address equality   *)
(* and network.subnet_of(network).  An address is [ver, w]: w holds the    *)
(* four octets (ver 4) or the eight hextets (ver 6).  A network is         *)
(* [ver, w, plen] with w the masked network address.  Texts with a dotted  *)
(* netmask after the slash, an IPv4 suffix inside an IPv6 address or a     *)
(* scope id are not among the inputs enumerated below.                     *)

WordBits(ver) == IF ver = 4 THEN 8 ELSE 16

MaxPrefix(ver) == IF ver = 4 THEN 32 ELSE 128

\* IPv4Address._parse_octet
OctetOk(o) ==
    /\ Len(o) > 0
    /\ \A i \in 1..Len(o) : o[i] \in Digits
    /\ Len(o) <= 3
    /\ (Len(o) > 1 => o[1] # "0")
    /\ ToNat(o, 10) <= 255

\* IPv4Address._ip_int_from_string on the dot-separated pieces.
IPv4FromOctets(octets) ==
    IF Len(octets) # 4 \/ \E i \in 1..Len(octets) : ~OctetOk(octets[i])
    THEN Raise("ValueError")
    ELSE Ret([ver |-> 4, w |-> [i \in 1..4 |-> ToNat(octets[i], 10)]])

\* IPv4Address(s)
IPv4Address(s) == IF Has(s, "/") THEN Raise("ValueError") ELSE IPv4FromOctets(Split(s, "."))

\* IPv6Address._parse_hextet
HextetOk(h) == Len(h) \in 1..4 /\ \A i \in 1..Len(h) : h[i] \in HexDigits

\* The hextets of an address without "::": exactly eight non-empty parts.
IPv6Full(parts) ==
    IF Len(parts) # 8 \/ \E i \in 1..Len(parts) : ~HextetOk(parts[i])
    THEN Raise("ValueError")
    ELSE Ret([ver |-> 6, w |-> [k \in 1..8 |-> ToNat(parts[k], 16)]])

\* The hextets of an address whose "::" is the empty part at index skip:
\* hi parts before it, lo parts after it, zeros between.
IPv6Skipped(parts, skip, hi, lo) ==
    IF \/ (parts[1] = <<>> /\ skip # 2)
       \/ (parts[Len(parts)] = <<>> /\ skip # Len(parts) - 1)
       \/ 8 - (hi + lo) < 1
       \/ \E i \in (1..hi) \cup ((Len(parts) - lo + 1)..Len(parts)) : ~HextetOk(parts[i])
    THEN Raise("ValueError")
    ELSE Ret([ver |-> 6,
              w |-> [k \in 1..8 |->
                        IF k <= hi THEN ToNat(parts[k], 16)
                        ELSE IF k > 8 - lo THEN ToNat(parts[Len(parts) - (8 - k)], 16)
                        ELSE 0]])

\* IPv6Address._ip_int_from_string on the colon-separated pieces; skips are
\* the indices of the empty inner pieces.
IPv6FromParts(parts, skips) ==
    IF Len(parts) < 3 \/ Len(parts) > 9 \/ Cardinality(skips) > 1 THEN Raise("ValueError")
    ELSE IF skips = {} THEN IPv6Full(parts)
    ELSE Let(CHOOSE i \in skips : TRUE, LAMBDA skip :
            IPv6Skipped(parts, skip,
                        IF parts[1] = <<>> THEN 0 ELSE skip - 1,
                        IF parts[Len(parts)] = <<>> THEN 0 ELSE Len(parts) - skip))

\* IPv6Address(s)
IPv6Address(s) ==
    IF Has(s, "/") THEN Raise("ValueError")
    ELSE Let(Split(s, ":"), LAMBDA parts :
            IPv6FromParts(parts, {i \in 2..(Len(parts) - 1) : parts[i] = <<>>}))

\* ipaddress.ip_address(s): IPv4 first, then IPv6, else ValueError.
ip_address(s) == OrElse(IPv4Address(s), IPv6Address(s))

\* The number of bits of the i-th word that a prefix of plen bits covers.
KeptBits(i, bits, plen) ==
    IF plen - bits * (i - 1) < 0 THEN 0
    ELSE IF plen - bits * (i - 1) > bits THEN bits
    ELSE plen - bits * (i - 1)

\* address & netmask
Masked(ver, w, plen) ==
    [i \in 1..Len(w) |-> w[i] - (w[i] % Pow2(WordBits(ver) - KeptBits(i, WordBits(ver), plen)))]

\* network address | hostmask, for a masked network address w
Broadcast(ver, w, plen) ==
    [i \in 1..Len(w) |-> w[i] + Pow2(WordBits(ver) - KeptBits(i, WordBits(ver), plen)) - 1]

\* _BaseNetwork._prefix_from_prefix_string
PrefixOk(p, ver) ==
    /\ Len(p) > 0
    /\ \A i \in 1..Len(p) : p[i] \in Digits
    /\ ToNat(p, 10) <= MaxPrefix(ver)

\* The network of address a and the pieces sp of the text around "/".
NetworkOf(a, sp) ==
    IF Len(sp) = 1 THEN Ret([ver |-> a.ver, w |-> a.w, plen |-> MaxPrefix(a.ver)])
    ELSE IF ~PrefixOk(sp[2], a.ver) THEN Raise("ValueError")
    ELSE Ret([ver |-> a.ver, w |-> Masked(a.ver, a.w, ToNat(sp[2], 10)),
              plen |-> ToNat(sp[2], 10)])

\* ipaddress.ip_network(s, strict=False): IPv4Network(s), then
\* IPv6Network(s), else ValueError.  Both split at "/", parse the address
\* and then the prefix; a text is at most one of an IPv4 and an IPv6 address.
NetworkFromPieces(sp) ==
    IF Len(sp) > 2 THEN Raise("ValueError")
    ELSE Then(ip_address(sp[1]), LAMBDA a : NetworkOf(a, sp))

ip_network(s) == NetworkFromPieces(Split(s, "/"))

\* `addr in net` (_BaseNetwork.__contains__): False across versions.
addr_in_network(addr, net) ==
    addr.ver = net.ver /\ Masked(addr.ver, addr.w, net.plen) = net.w

RECURSIVE LexLeq(_, _)
\* Integer order of two addresses given as equally long word sequences.
LexLeq(a, b) ==
    IF Len(a) = 0 THEN TRUE
    ELSE IF a[1] # b[1] THEN a[1] < b[1]
    ELSE LexLeq(Tail(a), Tail(b))

\* a.subnet_of(b) (_BaseNetwork._is_subnet_of): TypeError across versions.
subnet_of(a, b) ==
    IF a.ver # b.ver THEN Raise("TypeError")
    ELSE Ret(/\ LexLeq(b.w, a.w)
             /\ LexLeq(Broadcast(a.ver, a.w, a.plen), Broadcast(b.ver, b.w, b.plen)))

-----------------------------------------------------------------------------
(* evaluator/ip_matcher.py                                                 *)

\* ip_matches_try without its CIDR branch: the rule value is always read
\* as one address.
ip_matches_try_address_only(packet_ip, rule_ip) ==
    Then(ip_address(packet_ip), LAMBDA packet_addr :
        Then(ip_address(rule_ip), LAMBDA rule_addr :
            Ret(packet_addr = rule_addr)))

\* The try block of IPMatcher.ip_matches.
ip_matches_try(packet_ip, rule_ip) ==
    Then(ip_address(packet_ip), LAMBDA packet_addr :
        IF Has(rule_ip, "/")
        THEN Then(ip_network(rule_ip), LAMBDA rule_network :
                Ret(addr_in_network(packet_addr, rule_network)))
        ELSE Then(ip_address(rule_ip), LAMBDA rule_addr :
                Ret(packet_addr = rule_addr)))

\* Mutant of ip_matches: a rule value that names a set admits every address.
ip_matches_set_admits(packet_ip, rule_ip) ==
    IF rule_ip = None THEN Ret(TRUE)
    ELSE IF packet_ip = None THEN Ret(FALSE)
    ELSE IF Len(rule_ip) > 0 /\ rule_ip[1] = "@" THEN Ret(TRUE)
    ELSE Except(ip_matches_try(packet_ip, rule_ip), "ValueError", FALSE)

\* ip_matches without its `except ValueError`.
ip_matches_uncaught(packet_ip, rule_ip) ==
    IF rule_ip = None THEN Ret(TRUE)
    ELSE IF packet_ip = None THEN Ret(FALSE)
    ELSE ip_matches_try(packet_ip, rule_ip)

\* IPMatcher.ip_matches(packet_ip, rule_ip)
ip_matches(packet_ip, rule_ip) ==
    IF rule_ip = None THEN Ret(TRUE)
    ELSE IF packet_ip = None THEN Ret(FALSE)
    ELSE Except(ip_matches_try(packet_ip, rule_ip), "ValueError", FALSE)

\* port_in_range with the upper bound left out of the range.
port_in_range_exclusive(p, parts) ==
    IF Len(parts) # 2 THEN Raise("ValueError")
    ELSE Then(py_int(parts[1]), LAMBDA start :
            IF ~(start <= p) THEN Ret(FALSE)
            ELSE Then(py_int(parts[2]), LAMBDA end : Ret(p < end)))

\* `start, end = rule_port.split("-")`, then the chained comparison
\* `int(start) <= packet_port <= int(end)`, which leaves int(end) alone
\* when its first half is false.
port_in_range(p, parts) ==
    IF Len(parts) # 2 THEN Raise("ValueError")
    ELSE Then(py_int(parts[1]), LAMBDA start :
            IF ~(start <= p) THEN Ret(FALSE)
            ELSE Then(py_int(parts[2]), LAMBDA end : Ret(p <= end)))

\* The try block of IPMatcher.port_matches; packet_port is <<n>>.
port_matches_try(packet_port, rule_port) ==
    IF Has(rule_port, "-")
    THEN port_in_range(packet_port[1], Split(rule_port, "-"))
    ELSE Then(py_int(rule_port), LAMBDA exact : Ret(packet_port[1] = exact))

\* IPMatcher.port_matches(packet_port, rule_port)
port_matches(packet_port, rule_port) ==
    IF rule_port = None THEN Ret(TRUE)
    ELSE IF packet_port = NoInt THEN Ret(FALSE)
    ELSE Except(port_matches_try(packet_port, rule_port), "ValueError", FALSE)

\* protocol_matches comparing the texts as written.
protocol_matches_case_sensitive(packet_proto, rule_proto) ==
    IF rule_proto = None \/ rule_proto = <<"a", "n", "y">> THEN Ret(TRUE)
    ELSE IF packet_proto = None THEN Ret(FALSE)
    ELSE Ret(packet_proto = rule_proto)

\* IPMatcher.protocol_matches(packet_proto, rule_proto)
protocol_matches(packet_proto, rule_proto) ==
    IF rule_proto = None \/ rule_proto = <<"a", "n", "y">> THEN Ret(TRUE)
    ELSE IF packet_proto = None THEN Ret(FALSE)
    ELSE Ret(Lower(packet_proto) = Lower(rule_proto))

-----------------------------------------------------------------------------
(* evaluator/rule_evaluator.py.  A Rule is [action, chain, source,         *)
(* destination, sport, dport, protocol, line_number]; a Query is [src_ip,  *)
(* dst_ip, src_port, dst_port, protocol, direction].  Trace lines and      *)
(* explanations are tuples of the f-string's fixed text and its values.    *)

\* RuleEvaluator._rule_matches_query(rule, query): the five matches are
\* computed first, then combined.
_rule_matches_query(rule, q) ==
    Then(ip_matches(q.src_ip, rule.source), LAMBDA src_ip_match :
    Then(port_matches(q.src_port, rule.sport), LAMBDA src_port_match :
    Then(ip_matches(q.dst_ip, rule.destination), LAMBDA dst_ip_match :
    Then(port_matches(q.dst_port, rule.dport), LAMBDA dst_port_match :
    Then(protocol_matches(q.protocol, rule.protocol), LAMBDA proto_match :
        Ret(/\ src_ip_match
            /\ src_port_match
            /\ dst_ip_match
            /\ dst_port_match
            /\ proto_match))))))

\* RuleEvaluator._get_chain_for_direction(direction)
_get_chain_for_direction(direction) ==
    CASE direction = "in" -> <<"i", "n", "p", "u", "t">>
      [] direction = "out" -> <<"o", "u", "t", "p", "u", "t">>
      [] direction = "forward" -> <<"f", "o", "r", "w", "a", "r", "d">>
      [] OTHER -> <<"i", "n", "p", "u", "t">>

\* Mutant of relevant_rules: the chain name is compared as written.
relevant_rules_exact(rs, chain_name) == SelectSeq(rs, LAMBDA r : r.chain = chain_name)

\* relevant_rules = [r for r in self.rules if r.chain.lower() == chain_name]
relevant_rules(rs, chain_name) == SelectSeq(rs, LAMBDA r : Lower(r.chain) = chain_name)

\* The trace line appended for a matching rule.
MatchTrace(rule) ==
    <<"Rule matches", rule.line_number, rule.action,
      rule.source, rule.destination, rule.sport, rule.dport>>

\* Mutant of on_match: the trace line of a match is put before the lines
\* written so far.
on_match_trace_first(st, rule) ==
    [st EXCEPT !.matched_rules = Append(@, rule),
               !.trace = <<MatchTrace(rule)>> \o @,
               !.last_action = rule.action]

\* The body of `if self._rule_matches_query(rule, query):`.
on_match(st, rule) ==
    [st EXCEPT !.matched_rules = Append(@, rule),
               !.trace = Append(@, MatchTrace(rule)),
               !.last_action = rule.action]

\* Mutant of breaks: only accept, drop and reject end the scan.
breaks_on_verdict(action) == action \in {"accept", "drop", "reject"}

\* Mutant of breaks: return ends the scan like a terminal action.
breaks_on_return(action) == action \notin {"jump"}

\* `if last_action not in ["jump", "return"]: break`
breaks(action) == action \notin {"jump", "return"}

RECURSIVE scan(_, _, _)
\* The for loop of evaluate over the relevant rules rel; st is
\* [matched_rules, trace, last_action].
scan(rel, q, st) ==
    IF Len(rel) = 0 THEN Ret(st)
    ELSE Then(_rule_matches_query(rel[1], q), LAMBDA m :
            IF ~m THEN scan(Tail(rel), q, st)
            ELSE IF breaks(rel[1].action) THEN Ret(on_match(st, rel[1]))
            ELSE scan(Tail(rel), q, on_match(st, rel[1])))

\* The conflict recorded for two adjacent matched rules.
conflict_of(rule1, rule2) ==
    [rule1 |-> rule1, rule2 |-> rule2,
     reason |-> <<"conflicts with", rule1.line_number, rule1.action,
                  rule2.line_number, rule2.action>>]

RECURSIVE _detect_conflicts(_, _, _)
\* RuleEvaluator._detect_conflicts(matched_rules, result), from index i on.
_detect_conflicts(matched, res, i) ==
    IF i > Len(matched) - 1 THEN res
    ELSE IF matched[i].action # matched[i + 1].action
    THEN _detect_conflicts(matched,
            [res EXCEPT !.conflicts = Append(@, conflict_of(matched[i], matched[i + 1])),
                        !.verdict = "CONFLICT",
                        !.explanation = <<"Conflicting actions", matched[i].action,
                                          matched[i + 1].action>>],
            i + 1)
    ELSE _detect_conflicts(matched, res, i + 1)

\* Mutant of check_conflicts: only the last two matched rules are compared.
check_conflicts_last_pair(res) ==
    IF Len(res.matched_rules) > 1
    THEN _detect_conflicts(res.matched_rules, res, Len(res.matched_rules) - 1)
    ELSE res

\* `if len(matched_rules) > 1: self._detect_conflicts(matched_rules, result)`
check_conflicts(res) ==
    IF Len(res.matched_rules) > 1 THEN _detect_conflicts(res.matched_rules, res, 1) ELSE res

\* Mutant of assign_verdict: reject is not among the blocking actions.
assign_verdict_drop_only(res, last_action) ==
    IF last_action \in {"accept"}
    THEN [res EXCEPT !.verdict = "ALLOW",
                     !.explanation = <<"Traffic allowed by rule",
                                       res.matched_rules[Len(res.matched_rules)].line_number>>]
    ELSE IF last_action \in {"drop"}
    THEN [res EXCEPT !.verdict = "BLOCK",
                     !.explanation = <<"Traffic blocked by rule",
                                       res.matched_rules[Len(res.matched_rules)].line_number>>]
    ELSE [res EXCEPT !.verdict = "NO_MATCH",
                     !.explanation = <<"Matched jump/return rules only">>]

\* The verdict assignment of evaluate for a non-empty match list.
assign_verdict(res, last_action) ==
    IF last_action \in {"accept"}
    THEN [res EXCEPT !.verdict = "ALLOW",
                     !.explanation = <<"Traffic allowed by rule",
                                       res.matched_rules[Len(res.matched_rules)].line_number>>]
    ELSE IF last_action \in {"drop", "reject"}
    THEN [res EXCEPT !.verdict = "BLOCK",
                     !.explanation = <<"Traffic blocked by rule",
                                       res.matched_rules[Len(res.matched_rules)].line_number>>]
    ELSE [res EXCEPT !.verdict = "NO_MATCH",
                     !.explanation = <<"Matched jump/return rules only">>]

\* The `else` branch of `if matched_rules:`.
no_match(res, chain_name) ==
    [res EXCEPT !.verdict = "NO_MATCH",
                !.explanation = <<"No rules matched for chain", chain_name>>,
                !.trace = Append(@, <<"Default policy would apply (usually ACCEPT)">>)]

\* "Determine verdict": the end of evaluate, after the loop left st.
determine_verdict(st, chain_name) ==
    Let([verdict |-> "NO_MATCH",
         explanation |-> <<"No matching rules found">>,
         matched_rules |-> st.matched_rules,
         conflicts |-> <<>>,
         trace |-> st.trace], LAMBDA res :
        IF st.matched_rules # <<>>
        THEN assign_verdict(check_conflicts(res), st.last_action)
        ELSE no_match(res, chain_name))

\* The state of evaluate before its loop.
scan_start(rs, q, chain_name, rel) ==
    [matched_rules |-> <<>>,
     trace |-> << <<"Evaluating query", q>>,
                  <<"Total rules to check", Len(rs)>>,
                  <<"Relevant rules for chain", chain_name, Len(rel)>> >>,
     last_action |-> "None"]

\* RuleEvaluator.evaluate(query) on the rule list rs.
evaluate(rs, q) ==
    Let(_get_chain_for_direction(q.direction), LAMBDA chain_name :
    Let(relevant_rules(rs, chain_name), LAMBDA rel :
    Then(scan(rel, q, scan_start(rs, q, chain_name, rel)), LAMBDA st :
        Ret(determine_verdict(st, chain_name)))))

\* The try block of RuleEvaluator._ip_contains.
_ip_contains_try(general, specific) ==
    IF Has(general, "/")
    THEN Then(ip_network(general), LAMBDA general_net :
            IF Has(specific, "/")
            THEN Then(ip_network(specific), LAMBDA specific_net :
                    subnet_of(specific_net, general_net))
            ELSE Then(ip_address(specific), LAMBDA specific_addr :
                    Ret(addr_in_network(specific_addr, general_net))))
    ELSE Ret(general = specific)

\* RuleEvaluator._ip_contains(general, specific)
_ip_contains(general, specific) ==
    Except(_ip_contains_try(general, specific), "ValueError", FALSE)

\* Python truthiness of an optional str: neither None nor "".
Truthy(s) == s # None /\ s # <<>>

\* Mutant of ip_field_covers: an absent address of the specific rule is
\* taken as covered.
ip_field_covers_absent(g, s) ==
    IF g = None THEN Ret(TRUE)
    ELSE IF ~Truthy(s) THEN Ret(TRUE)
    ELSE _ip_contains(g, s)

\* `general.f is None or (specific.f and self._ip_contains(general.f, specific.f))`
ip_field_covers(g, s) ==
    IF g = None THEN Ret(TRUE)
    ELSE IF ~Truthy(s) THEN Ret(FALSE)
    ELSE _ip_contains(g, s)

\* RuleEvaluator._rule_shadows(general, specific)
_rule_shadows(general, specific) ==
    IF general.action # specific.action THEN Ret(FALSE)
    ELSE Then(ip_field_covers(general.source, specific.source), LAMBDA src :
            IF ~src THEN Ret(FALSE)
            ELSE Then(ip_field_covers(general.destination, specific.destination), LAMBDA dst :
                    IF ~dst THEN Ret(FALSE)
                    ELSE Ret(/\ (general.sport = None \/ general.sport = specific.sport)
                             /\ (general.dport = None \/ general.dport = specific.dport)
                             /\ (general.protocol = None
                                 \/ general.protocol = specific.protocol))))

RECURSIVE redundant_from(_, _, _, _)
\* The two nested loops of find_redundant_rules from (i, j) on; acc is the
\* list built so far.  An exception of _rule_shadows ends the call.
redundant_from(rs, i, j, acc) ==
    IF i > Len(rs) THEN Ret(acc)
    ELSE IF j > Len(rs) THEN redundant_from(rs, i + 1, i + 2, acc)
    ELSE IF rs[i].chain # rs[j].chain THEN redundant_from(rs, i, j + 1, acc)
    ELSE Then(_rule_shadows(rs[i], rs[j]), LAMBDA sh :
            IF sh THEN redundant_from(rs, i, j + 1, Append(acc, <<rs[i], rs[j]>>))
            ELSE redundant_from(rs, i, j + 1, acc))

\* RuleEvaluator.find_redundant_rules() on the rule list rs.
find_redundant_rules(rs) == redundant_from(rs, 1, 2, <<>>)

-----------------------------------------------------------------------------
(* Inputs.  Texts are written out character by character.                  *)

\* The texts of rules, queries and documents.
T ==
    [input |-> <<"i", "n", "p", "u", "t">>,
     INPUT |-> <<"I", "N", "P", "U", "T">>,
     Input |-> <<"I", "n", "p", "u", "t">>,
     output |-> <<"o", "u", "t", "p", "u", "t">>,
     Forward |-> <<"F", "o", "r", "w", "a", "r", "d">>,
     forward |-> <<"f", "o", "r", "w", "a", "r", "d">>,
     web |-> <<"w", "e", "b">>,
     tcp |-> <<"t", "c", "p">>,
     udp |-> <<"u", "d", "p">>,
     p80 |-> <<"8", "0">>,
     p1024 |-> <<"1", "0", "2", "4">>,
     net24 |-> <<"1", "9", "2", ".", "1", "6", "8", ".", "1", ".", "0", "/", "2", "4">>,
     host10 |-> <<"1", "9", "2", ".", "1", "6", "8", ".", "1", ".", "1", "0">>,
     host2_10 |-> <<"1", "9", "2", ".", "1", "6", "8", ".", "2", ".", "1", "0">>,
     net8 |-> <<"1", "0", ".", "0", ".", "0", ".", "0", "/", "8">>,
     host10_1 |-> <<"1", "0", ".", "0", ".", "0", ".", "1">>,
     net6 |-> <<"2", "0", "0", "1", ":", "d", "b", "8", ":", ":", "/", "3", "2">>,
     badnet |-> <<"1", "9", "2", ".", "1", "6", "8", ".", "1", ".", "0", "/", "3", "3">>,
     setref |-> <<"@", "a", "l", "l", "o", "w", "e", "d">>,
     net24_77 |-> <<"1", "9", "2", ".", "1", "6", "8", ".", "1", ".", "7", "7", "/", "2", "4">>,
     filter |-> <<"f", "i", "l", "t", "e", "r">>,
     inet |-> <<"i", "n", "e", "t">>,
     v1_0_9 |-> <<"1", ".", "0", ".", "9">>]

\* models/rule.py: the values of Rule.action
Actions == {"accept", "drop", "reject", "jump", "return", "counter", "log"}

\* models/rule.py: a Rule value
Rule(action, chain, source, destination, sport, dport, protocol, line_number) ==
    [action |-> action, chain |-> chain, source |-> source, destination |-> destination,
     sport |-> sport, dport |-> dport, protocol |-> protocol, line_number |-> line_number]

\* models/query.py: a Query value
Query(src_ip, dst_ip, src_port, dst_port, protocol, direction) ==
    [src_ip |-> src_ip, dst_ip |-> dst_ip, src_port |-> src_port, dst_port |-> dst_port,
     protocol |-> protocol, direction |-> direction]

\* The number of rules in a rule list of the evaluator specifications.
MaxRules == 3

\* The rule lists of at most n rules over a set of rules; as in a parse,
\* the rule at position i carries line_number i.
RuleLists(bodies, n) ==
    UNION {{[i \in 1..k |-> [b[i] EXCEPT !.line_number = i]] : b \in [1..k -> bodies]} : k \in 0..n}

\* Rules of Spec: every action without match fields, some actions restricted
\* to tcp/80, and a rule of another chain.
EvalRules ==
    {Rule(a, T.input, None, None, None, None, None, 0) : a \in Actions}
    \cup {Rule(a, T.input, None, None, None, T.p80, T.tcp, 0) : a \in {"accept", "drop", "jump"}}
    \cup {Rule("accept", T.output, None, None, None, None, None, 0)}

EvalQueries ==
    {Query(None, None, NoInt, <<80>>, T.tcp, "in"),
     Query(None, None, NoInt, NoInt, None, "in"),
     Query(None, None, NoInt, NoInt, None, "out")}

Pending == [exc |-> "pending"]

NoCall == [fn |-> "none"]

NoQuery == [direction |-> "none"]

-----------------------------------------------------------------------------
(* The evaluator: RuleEvaluator(rules), then evaluate(query) and           *)
(* find_redundant_rules(), each called once, in either order.              *)

Init ==
    /\ rules \in RuleLists(EvalRules, MaxRules)
    /\ query = NoQuery
    /\ result = Pending
    /\ redundant = Pending
    /\ call = NoCall
    /\ ret = Pending

\* evaluator.evaluate(q)
Evaluate(qs) ==
    /\ result.exc = "pending"
    /\ \E q \in qs :
        /\ query' = q
        /\ result' = evaluate(rules, q)
    /\ UNCHANGED <<rules, redundant, call, ret>>

\* evaluator.find_redundant_rules()
FindRedundant ==
    /\ redundant.exc = "pending"
    /\ redundant' = find_redundant_rules(rules)
    /\ UNCHANGED <<rules, query, result, call, ret>>

Next == Evaluate(EvalQueries) \/ FindRedundant

Spec == Init /\ [][Next]_vars

-----------------------------------------------------------------------------
(* Properties of evaluate, stated over the state left by Evaluate.  The    *)
(* chain a direction selects and the lower-case form of a chain name are   *)
(* tabulated here, apart from the operators that model the code.           *)

DirectionChain(d) ==
    CASE d = "in" -> "input" [] d = "out" -> "output" [] d = "forward" -> "forward"
      [] OTHER -> "input"

ChainTable ==
    {<<T.input, "input">>, <<T.INPUT, "input">>, <<T.Input, "input">>,
     <<T.output, "output">>, <<T.forward, "forward">>, <<T.Forward, "forward">>,
     <<T.web, "web">>}

\* The lower-case name of a chain text of ChainTable.
ChainKey(text) == (CHOOSE e \in ChainTable : e[1] = text)[2]

Evaluated == result.exc = "none"

\* Rule i is in the chain the query selects.
InChain(i) == ChainKey(rules[i].chain) = DirectionChain(query.direction)

\* Rule i is in the selected chain and matches the query.
Matching(i) == InChain(i) /\ _rule_matches_query(rules[i], query).value

\* The index of the first matching rule that is neither jump nor return,
\* or Len(rules) + 1 when there is none.
StopIndex ==
    IF \E i \in 1..Len(rules) : Matching(i) /\ rules[i].action \notin {"jump", "return"}
    THEN CHOOSE i \in 1..Len(rules) :
            /\ Matching(i) /\ rules[i].action \notin {"jump", "return"}
            /\ \A j \in 1..(i - 1) : ~(Matching(j) /\ rules[j].action \notin {"jump", "return"})
    ELSE Len(rules) + 1

\* The indices evaluate is to report: the matching rules up to StopIndex.
ExpectedMatched == {i \in 1..Len(rules) : Matching(i) /\ i <= StopIndex}

\* ms lists exactly the rules with indices in idx, in list order.
ListsInOrder(ms, idx) ==
    /\ Len(ms) = Cardinality(idx)
    /\ \A k \in 1..Len(ms) : ms[k].line_number \in idx /\ ms[k] = rules[ms[k].line_number]
    /\ \A k \in 1..(Len(ms) - 1) : ms[k].line_number < ms[k + 1].line_number

SameMatchFields(r1, r2) ==
    /\ r1.chain = r2.chain /\ r1.source = r2.source /\ r1.destination = r2.destination
    /\ r1.sport = r2.sport /\ r1.dport = r2.dport /\ r1.protocol = r2.protocol

\* C1: evaluate scans the selected chain in list order and stops at the
\* first matching rule that is neither jump nor return: matched_rules is
\* the matching jump/return rules before that rule followed by that rule,
\* and nothing after it; two rules with the same chain and match fields,
\* accept then drop, give ALLOW with only the first rule for a matching
\* query.
C1_FirstMatchWins ==
    Evaluated =>
        /\ ListsInOrder(result.value.matched_rules, ExpectedMatched)
        /\ (/\ Len(rules) = 2
            /\ SameMatchFields(rules[1], rules[2])
            /\ rules[1].action = "accept" /\ rules[2].action = "drop"
            /\ Matching(1))
           => /\ result.value.verdict = "ALLOW"
              /\ result.value.matched_rules = <<rules[1]>>

\* C1 witness: a jump rule and then a terminal rule matched, and a later
\* rule of the chain that matches the query as well was left out.
C1_Witness ==
    /\ Evaluated
    /\ Len(result.value.matched_rules) = 2
    /\ result.value.matched_rules[1].action \in {"jump", "return"}
    /\ \E i \in 1..Len(rules) : Matching(i) /\ i > StopIndex

\* Some rule matched and the last matched rule has action a.
LastMatched(a) ==
    /\ result.value.matched_rules # <<>>
    /\ result.value.matched_rules[Len(result.value.matched_rules)].action = a

\* C2: the verdict is ALLOW when the last matched rule accepts, BLOCK when
\* it drops or rejects, NO_MATCH when only jump/return rules matched, and
\* NO_MATCH with no matched rule and a closing default-policy trace line
\* when no rule of the selected chain matched.
C2_VerdictAssignment ==
    Evaluated =>
        /\ LastMatched("accept") => result.value.verdict = "ALLOW"
        /\ (LastMatched("drop") \/ LastMatched("reject")) => result.value.verdict = "BLOCK"
        /\ (/\ result.value.matched_rules # <<>>
            /\ \A k \in 1..Len(result.value.matched_rules) :
                  result.value.matched_rules[k].action \in {"jump", "return"})
           => result.value.verdict = "NO_MATCH"
        /\ (\A i \in 1..Len(rules) : ~Matching(i))
           => /\ result.value.verdict = "NO_MATCH"
              /\ result.value.matched_rules = <<>>
              /\ result.value.trace[Len(result.value.trace)]
                    = <<"Default policy would apply (usually ACCEPT)">>

\* C2 witness: a jump rule and then a reject rule matched; the verdict is BLOCK.
C2_Witness ==
    /\ Evaluated
    /\ Len(result.value.matched_rules) = 2
    /\ LastMatched("reject")
    /\ result.value.verdict = "BLOCK"

\* Two adjacent matched rules differ in action.
AdjacentConflict(k) ==
    /\ k \in 1..(Len(result.value.matched_rules) - 1)
    /\ result.value.matched_rules[k].action # result.value.matched_rules[k + 1].action

\* C3 (as claimed): whenever two adjacent matched rules differ in action the
\* verdict is CONFLICT and the explanation names two conflicting actions.
C3_ConflictOverrides ==
    (Evaluated /\ \E k \in 1..Len(rules) : AdjacentConflict(k))
    => /\ result.value.verdict = "CONFLICT"
       /\ \E k \in 1..Len(rules) :
            /\ AdjacentConflict(k)
            /\ result.value.explanation
                 = <<"Conflicting actions", result.value.matched_rules[k].action,
                     result.value.matched_rules[k + 1].action>>

-----------------------------------------------------------------------------
(* Chain selection: rule lists over chain names of mixed case, and         *)
(* _get_chain_for_direction called on its own as the tests do.             *)

\* Unrestricted rules in every chain, and a jump out of the input chain.
ChainRules ==
    {Rule("accept", c, None, None, None, None, None, 0) :
        c \in {T.input, T.INPUT, T.Input, T.output, T.forward, T.Forward, T.web}}
    \cup {Rule("jump", T.input, None, None, None, None, None, 0)}

ChainQueries ==
    {Query(None, None, NoInt, NoInt, None, d) : d \in {"in", "out", "forward"}}

Directions == {"in", "out", "forward", "unknown", ""}

InitChain ==
    /\ rules \in RuleLists(ChainRules, MaxRules)
    /\ query = NoQuery
    /\ result = Pending
    /\ redundant = Pending
    /\ call = NoCall
    /\ ret = Pending

\* evaluator._get_chain_for_direction(d)
GetChainForDirection ==
    /\ ret.exc = "pending"
    /\ \E d \in Directions :
        /\ call' = [fn |-> "_get_chain_for_direction", direction |-> d]
        /\ ret' = Ret(_get_chain_for_direction(d))
    /\ UNCHANGED <<rules, query, result, redundant>>

NextChain == Evaluate(ChainQueries) \/ GetChainForDirection

SpecChain == InitChain /\ [][NextChain]_vars

\* C4: the direction selects a chain name (in -> input, out -> output,
\* forward -> forward, anything else -> input); evaluate considers exactly
\* the rules whose chain equals that name up to case, in list order, and
\* no rule of another chain is ever matched.
C4_ChainSelection ==
    /\ Evaluated =>
        /\ result.value.trace[3][1] = "Relevant rules for chain"
        /\ ChainKey(result.value.trace[3][2]) = DirectionChain(query.direction)
        /\ result.value.trace[3][2] = Lower(result.value.trace[3][2])
        /\ result.value.trace[3][3] = Cardinality({i \in 1..Len(rules) : InChain(i)})
        /\ ListsInOrder(result.value.matched_rules, ExpectedMatched)
        /\ \A k \in 1..Len(result.value.matched_rules) :
              ChainKey(result.value.matched_rules[k].chain) = DirectionChain(query.direction)
    /\ (call.fn = "_get_chain_for_direction" /\ ret.exc = "none") =>
        /\ ChainKey(ret.value) = DirectionChain(call.direction)
        /\ ret.value \in {T.input, T.output, T.forward}

\* C4 witness: the query selects the input chain; a rule written INPUT is
\* matched after a jump, and a rule of the jump-target chain web between
\* them is not.
C4_Witness ==
    /\ Evaluated
    /\ query.direction = "in"
    /\ Len(rules) = 3
    /\ rules[1].action = "jump" /\ rules[2].chain = T.web /\ rules[3].chain = T.INPUT
    /\ result.value.matched_rules = <<rules[1], rules[3]>>

-----------------------------------------------------------------------------
(* The matcher predicates called on their own.  Each literal is listed     *)
(* with what it denotes: an address, a network (the address as written     *)
(* and the prefix length) or nothing (kind "bad"); a port literal denotes  *)
(* a number, an inclusive range or nothing.                                *)

IpLiterals == {
    [text |-> <<"1", "9", "2", ".", "1", "6", "8", ".", "1", ".", "1", "0">>,
     kind |-> "addr", ver |-> 4, w |-> <<192, 168, 1, 10>>, plen |-> 32],
    [text |-> <<"1", "9", "2", ".", "1", "6", "8", ".", "1", ".", "2", "5", "5">>,
     kind |-> "addr", ver |-> 4, w |-> <<192, 168, 1, 255>>, plen |-> 32],
    [text |-> <<"1", "9", "2", ".", "1", "6", "8", ".", "2", ".", "1", "0">>,
     kind |-> "addr", ver |-> 4, w |-> <<192, 168, 2, 10>>, plen |-> 32],
    [text |-> <<"1", "0", ".", "0", ".", "0", ".", "1">>,
     kind |-> "addr", ver |-> 4, w |-> <<10, 0, 0, 1>>, plen |-> 32],
    [text |-> <<"1", ".", "2", ".", "3", ".", "4">>,
     kind |-> "addr", ver |-> 4, w |-> <<1, 2, 3, 4>>, plen |-> 32],
    [text |-> <<"2", "5", "5", ".", "2", "5", "5", ".", "2", "5", "5", ".", "2", "5", "5">>,
     kind |-> "addr", ver |-> 4, w |-> <<255, 255, 255, 255>>, plen |-> 32],
    [text |-> <<":", ":", "1">>,
     kind |-> "addr", ver |-> 6, w |-> <<0, 0, 0, 0, 0, 0, 0, 1>>, plen |-> 128],
    [text |-> <<"0", ":", "0", ":", "0", ":", "0", ":", "0", ":", "0", ":", "0", ":", "1">>,
     kind |-> "addr", ver |-> 6, w |-> <<0, 0, 0, 0, 0, 0, 0, 1>>, plen |-> 128],
    [text |-> <<"2", "0", "0", "1", ":", "d", "b", "8", ":", ":", "1">>,
     kind |-> "addr", ver |-> 6, w |-> <<8193, 3512, 0, 0, 0, 0, 0, 1>>, plen |-> 128],
    [text |-> <<"1", "9", "2", ".", "1", "6", "8", ".", "1", ".", "0", "/", "2", "4">>,
     kind |-> "net", ver |-> 4, w |-> <<192, 168, 1, 0>>, plen |-> 24],
    [text |-> <<"1", "9", "2", ".", "1", "6", "8", ".", "1", ".", "1", "0", "/", "3", "2">>,
     kind |-> "net", ver |-> 4, w |-> <<192, 168, 1, 10>>, plen |-> 32],
    [text |-> <<"0", ".", "0", ".", "0", ".", "0", "/", "0">>,
     kind |-> "net", ver |-> 4, w |-> <<0, 0, 0, 0>>, plen |-> 0],
    [text |-> <<"1", "9", "2", ".", "1", "6", "8", ".", "1", ".", "7", "7", "/", "2", "4">>,
     kind |-> "net", ver |-> 4, w |-> <<192, 168, 1, 77>>, plen |-> 24],
    [text |-> <<"1", "0", ".", "0", ".", "0", ".", "0", "/", "8">>,
     kind |-> "net", ver |-> 4, w |-> <<10, 0, 0, 0>>, plen |-> 8],
    [text |-> <<"2", "0", "0", "1", ":", "d", "b", "8", ":", ":", "/", "3", "2">>,
     kind |-> "net", ver |-> 6, w |-> <<8193, 3512, 0, 0, 0, 0, 0, 0>>, plen |-> 32],
    [text |-> <<":", ":", "/", "0">>,
     kind |-> "net", ver |-> 6, w |-> <<0, 0, 0, 0, 0, 0, 0, 0>>, plen |-> 0],
    [text |-> <<"i", "n", "v", "a", "l", "i", "d">>,
     kind |-> "bad", ver |-> 0, w |-> <<>>, plen |-> 0],
    [text |-> <<"9", "9", "9", ".", "9", "9", "9", ".", "9", "9", "9", ".", "9", "9", "9">>,
     kind |-> "bad", ver |-> 0, w |-> <<>>, plen |-> 0],
    [text |-> <<"1", "9", "2", ".", "1", "6", "8", ".", "1", ".", "0", "/", "3", "3">>,
     kind |-> "bad", ver |-> 0, w |-> <<>>, plen |-> 0],
    [text |-> <<"0", "1", "0", ".", "0", ".", "0", ".", "1">>,
     kind |-> "bad", ver |-> 0, w |-> <<>>, plen |-> 0],
    [text |-> <<"@", "a", "l", "l", "o", "w", "e", "d">>,
     kind |-> "bad", ver |-> 0, w |-> <<>>, plen |-> 0],
    [text |-> <<>>,
     kind |-> "bad", ver |-> 0, w |-> <<>>, plen |-> 0],
    [text |-> <<"1", "0", ".", "0", ".", "0", ".", "0", "/", "8", "/", "8">>,
     kind |-> "bad", ver |-> 0, w |-> <<>>, plen |-> 0]}

PortLiterals == {
    [text |-> <<"8", "0">>, kind |-> "literal", lo |-> 80, hi |-> 80],
    [text |-> <<"4", "4", "3">>, kind |-> "literal", lo |-> 443, hi |-> 443],
    [text |-> <<"0", "8", "0">>, kind |-> "literal", lo |-> 80, hi |-> 80],
    [text |-> <<" ", "8", "0">>, kind |-> "literal", lo |-> 80, hi |-> 80],
    [text |-> <<"8", "0", "-", "4", "4", "3">>, kind |-> "range", lo |-> 80, hi |-> 443],
    [text |-> <<"4", "4", "3", "-", "8", "0">>, kind |-> "range", lo |-> 443, hi |-> 80],
    [text |-> <<"1", "-", "6", "5", "5", "3", "5">>, kind |-> "range", lo |-> 1, hi |-> 65535],
    [text |-> <<"i", "n", "v", "a", "l", "i", "d">>, kind |-> "bad", lo |-> 0, hi |-> 0],
    [text |-> <<"8", "0", "-", "i", "n", "v", "a", "l", "i", "d">>, kind |-> "bad", lo |-> 0, hi |-> 0],
    [text |-> <<"a", "-", "b", "-", "c">>, kind |-> "bad", lo |-> 0, hi |-> 0],
    [text |-> <<"@", "p", "o", "r", "t", "s">>, kind |-> "bad", lo |-> 0, hi |-> 0],
    [text |-> <<>>, kind |-> "bad", lo |-> 0, hi |-> 0],
    [text |-> <<"-", "8", "0">>, kind |-> "bad", lo |-> 0, hi |-> 0],
    [text |-> <<"8", "0", "-">>, kind |-> "bad", lo |-> 0, hi |-> 0]}

ProtocolLiterals ==
    {<<<<"t", "c", "p">>, "tcp">>, <<<<"T", "C", "P">>, "tcp">>,
     <<<<"u", "d", "p">>, "udp">>, <<<<"U", "d", "P">>, "udp">>,
     <<<<"i", "c", "m", "p">>, "icmp">>, <<<<"i", "c", "m", "p", "v", "6">>, "icmpv6">>,
     <<<<"a", "n", "y">>, "any">>, <<<<"A", "N", "Y">>, "any">>}

IpTexts == {l.text : l \in IpLiterals} \cup {None}

PortTexts == {l.text : l \in PortLiterals} \cup {None}

ProtocolTexts == {l[1] : l \in ProtocolLiterals} \cup {None}

PacketPorts == {NoInt, <<1>>, <<79>>, <<80>>, <<200>>, <<443>>, <<444>>, <<65535>>}

MatcherCalls ==
    [fn : {"ip_matches"}, cand : IpTexts, rv : IpTexts]
    \cup [fn : {"port_matches"}, cand : PacketPorts, rv : PortTexts]
    \cup [fn : {"protocol_matches"}, cand : ProtocolTexts, rv : ProtocolTexts]

InitMatcher ==
    /\ call \in MatcherCalls
    /\ ret = Pending
    /\ rules = <<>>
    /\ query = NoQuery
    /\ result = Pending
    /\ redundant = Pending

\* IPMatcher.ip_matches(cand, rv)
IpMatches ==
    /\ call.fn = "ip_matches" /\ ret.exc = "pending"
    /\ ret' = ip_matches(call.cand, call.rv)
    /\ UNCHANGED <<call, rules, query, result, redundant>>

\* IPMatcher.port_matches(cand, rv)
PortMatches ==
    /\ call.fn = "port_matches" /\ ret.exc = "pending"
    /\ ret' = port_matches(call.cand, call.rv)
    /\ UNCHANGED <<call, rules, query, result, redundant>>

\* IPMatcher.protocol_matches(cand, rv)
ProtocolMatches ==
    /\ call.fn = "protocol_matches" /\ ret.exc = "pending"
    /\ ret' = protocol_matches(call.cand, call.rv)
    /\ UNCHANGED <<call, rules, query, result, redundant>>

NextMatcher == IpMatches \/ PortMatches \/ ProtocolMatches

SpecMatcher == InitMatcher /\ [][NextMatcher]_vars

-----------------------------------------------------------------------------
(* Properties of the matchers.  Containment is decided on the bits of the  *)
(* denoted addresses, apart from the arithmetic of the model.              *)

\* What an IP text denotes.
IpMeaning(t) == CHOOSE l \in IpLiterals : l.text = t

\* What a port text denotes.
PortMeaning(t) == CHOOSE l \in PortLiterals : l.text = t

\* The lower-case name a protocol text denotes.
ProtocolKey(t) == (CHOOSE l \in ProtocolLiterals : l[1] = t)[2]

\* Bit j (1 is the most significant) of an address of the given version.
AddrBit(ver, w, j) ==
    (w[((j - 1) \div WordBits(ver)) + 1]
        \div Pow2(WordBits(ver) - 1 - ((j - 1) % WordBits(ver)))) % 2

\* Address a lies in network n: same version, same leading n.plen bits.
InNetwork(a, n) ==
    /\ a.ver = n.ver
    /\ \A j \in 1..n.plen : AddrBit(a.ver, a.w, j) = AddrBit(n.ver, n.w, j)

Returned(fn) == call.fn = fn /\ ret.exc # "pending"

\* C5: ip_matches is true for every candidate when the rule value is
\* absent and false for an absent candidate with a rule value; for a CIDR
\* rule value it is true exactly for the addresses inside the network (a
\* /32 matches one address, a /0 every address of its version), for a
\* single address exactly for that address.
C5_IpMatches ==
    Returned("ip_matches") =>
        /\ ret.exc = "none"
        /\ call.rv = None => ret.value = TRUE
        /\ (call.rv # None /\ call.cand = None) => ret.value = FALSE
        /\ (call.rv # None /\ call.cand # None /\ IpMeaning(call.cand).kind = "addr") =>
            /\ IpMeaning(call.rv).kind = "net"
               => ret.value = InNetwork(IpMeaning(call.cand), IpMeaning(call.rv))
            /\ (IpMeaning(call.rv).kind = "net"
                    /\ IpMeaning(call.rv).plen = MaxPrefix(IpMeaning(call.rv).ver))
               => ret.value = (/\ IpMeaning(call.cand).ver = IpMeaning(call.rv).ver
                               /\ IpMeaning(call.cand).w = IpMeaning(call.rv).w)
            /\ (IpMeaning(call.rv).kind = "net" /\ IpMeaning(call.rv).plen = 0)
               => ret.value = (IpMeaning(call.cand).ver = IpMeaning(call.rv).ver)
            /\ IpMeaning(call.rv).kind = "addr"
               => ret.value = (/\ IpMeaning(call.cand).ver = IpMeaning(call.rv).ver
                               /\ IpMeaning(call.cand).w = IpMeaning(call.rv).w)

\* C5 witness: an address was matched against a network written with host
\* bits set, and lies inside it.
C5_Witness ==
    /\ Returned("ip_matches")
    /\ call.rv = <<"1", "9", "2", ".", "1", "6", "8", ".", "1", ".", "7", "7", "/", "2", "4">>
    /\ call.cand = <<"1", "9", "2", ".", "1", "6", "8", ".", "1", ".", "2", "5", "5">>
    /\ ret.value = TRUE

\* C6: port_matches is true for every port when the rule value is absent
\* and false for an absent port with a rule value; for 'a-b' it is true
\* iff a <= p <= b, for a literal iff p equals it; '80-443' matches 80, 200
\* and 443 and neither 79 nor 444.
C6_PortMatches ==
    Returned("port_matches") =>
        /\ ret.exc = "none"
        /\ call.rv = None => ret.value = TRUE
        /\ (call.rv # None /\ call.cand = NoInt) => ret.value = FALSE
        /\ (call.rv # None /\ call.cand # NoInt) =>
            /\ PortMeaning(call.rv).kind = "range"
               => ret.value = (/\ PortMeaning(call.rv).lo <= call.cand[1]
                               /\ call.cand[1] <= PortMeaning(call.rv).hi)
            /\ PortMeaning(call.rv).kind = "literal"
               => ret.value = (call.cand[1] = PortMeaning(call.rv).lo)
            /\ call.rv = <<"8", "0", "-", "4", "4", "3">>
               => /\ call.cand[1] \in {80, 200, 443} => ret.value = TRUE
                  /\ call.cand[1] \in {79, 444} => ret.value = FALSE

\* C6 witness: the upper bound of a range was matched.
C6_Witness ==
    /\ Returned("port_matches")
    /\ call.rv = <<"8", "0", "-", "4", "4", "3">>
    /\ call.cand = <<443>>
    /\ ret.value = TRUE

\* C7: an absent rule value or the literal 'any' matches every candidate,
\* an absent one included; otherwise the result is equality of candidate
\* and rule value up to case, and false for an absent candidate.
C7_ProtocolMatches ==
    Returned("protocol_matches") =>
        /\ ret.exc = "none"
        /\ (call.rv = None \/ call.rv = <<"a", "n", "y">>) => ret.value = TRUE
        /\ (call.rv # None /\ call.rv # <<"a", "n", "y">>) =>
            /\ call.cand = None => ret.value = FALSE
            /\ call.cand # None
               => ret.value = (ProtocolKey(call.cand) = ProtocolKey(call.rv))

\* C7 witness: candidate and rule value differ in case only, and match.
C7_Witness ==
    /\ Returned("protocol_matches")
    /\ call.cand = <<"U", "d", "P">>
    /\ call.rv = <<"u", "d", "p">>
    /\ ret.value = TRUE

\* The rule value of the finished call denotes nothing.
MalformedRuleValue ==
    /\ call.rv # None
    /\ \/ call.fn = "ip_matches" /\ IpMeaning(call.rv).kind = "bad"
       \/ call.fn = "port_matches" /\ PortMeaning(call.rv).kind = "bad"

\* The candidate of the finished call is not an address.
MalformedCandidate ==
    call.fn = "ip_matches" /\ call.cand # None /\ IpMeaning(call.cand).kind # "addr"

\* C8 (as claimed): the matchers return a boolean and never raise, and a
\* malformed rule value or candidate yields false.
C8_TotalFalseOnMalformed ==
    ret.exc # "pending" =>
        /\ ret.exc = "none"
        /\ ret.value \in BOOLEAN
        /\ (MalformedRuleValue \/ MalformedCandidate) => ret.value = FALSE

\* C8 (amended): the matchers return a boolean and never raise; a malformed
\* rule value yields false, and a malformed candidate yields false whenever
\* a rule value is present (an absent rule value matches every candidate).
C8_Total ==
    ret.exc # "pending" =>
        /\ ret.exc = "none"
        /\ ret.value \in BOOLEAN
        /\ MalformedRuleValue => ret.value = FALSE
        /\ (MalformedCandidate /\ call.rv # None) => ret.value = FALSE
        /\ (MalformedCandidate /\ call.rv = None) => ret.value = TRUE

\* C8 witness: a range with too many parts was matched against a port.
C8_Witness ==
    /\ Returned("port_matches")
    /\ call.rv = <<"a", "-", "b", "-", "c">>
    /\ call.cand = <<80>>
    /\ ret.value = FALSE

-----------------------------------------------------------------------------
(* _rule_shadows called on its own on a pair of rules of one chain.        *)

ShadowSources ==
    {None, T.net24, T.net24_77, T.host10, T.host2_10, T.net8, T.net6, T.badnet, T.setref}

\* Rules of SpecShadow: both terminal actions, every source, and four
\* settings of the remaining match fields.
ShadowRules ==
    UNION {{Rule(a, T.input, s, None, None, None, None, 0),
            Rule(a, T.input, s, T.net8, None, T.p80, T.tcp, 0),
            Rule(a, T.input, s, T.host10_1, T.p1024, T.p80, T.tcp, 0),
            Rule(a, T.input, s, T.host10_1, None, T.p80, T.udp, 0)}
           : <<a, s>> \in {"accept", "drop"} \X ShadowSources}

InitShadow ==
    /\ call \in [fn : {"_rule_shadows"}, general : ShadowRules, specific : ShadowRules]
    /\ ret = Pending
    /\ rules = <<>>
    /\ query = NoQuery
    /\ result = Pending
    /\ redundant = Pending

\* RuleEvaluator._rule_shadows(general, specific)
RuleShadows ==
    /\ call.fn = "_rule_shadows" /\ ret.exc = "pending"
    /\ ret' = _rule_shadows(call.general, call.specific)
    /\ UNCHANGED <<call, rules, query, result, redundant>>

NextShadow == RuleShadows

SpecShadow == InitShadow /\ [][NextShadow]_vars

\* Network or address s lies inside network g: same version, s at least as
\* long a prefix as g, and the same leading bits.
InsideNetwork(g, s) ==
    /\ g.kind = "net" /\ s.kind \in {"net", "addr"}
    /\ g.ver = s.ver /\ g.plen <= s.plen
    /\ \A j \in 1..g.plen : AddrBit(g.ver, g.w, j) = AddrBit(s.ver, s.w, j)

\* An address field of the general rule is absent, equal to the specific
\* rule's, or a network that contains it.
IpFieldCovers(g, s) ==
    \/ g = None
    \/ g = s
    \/ s # None /\ InsideNetwork(IpMeaning(g), IpMeaning(s))

\* sport, dport or protocol of the general rule is absent or equal to the
\* specific rule's.
FieldCovers(g, s) == g = None \/ g = s

\* C9: _rule_shadows(g, s) is true iff the actions are equal and source,
\* destination, sport, dport and protocol of g all cover those of s; rules
\* whose actions differ are never reported.
C9_RuleShadows ==
    Returned("_rule_shadows") =>
        /\ ret.exc = "none"
        /\ ret.value = (/\ call.general.action = call.specific.action
                        /\ IpFieldCovers(call.general.source, call.specific.source)
                        /\ IpFieldCovers(call.general.destination, call.specific.destination)
                        /\ FieldCovers(call.general.sport, call.specific.sport)
                        /\ FieldCovers(call.general.dport, call.specific.dport)
                        /\ FieldCovers(call.general.protocol, call.specific.protocol))

-----------------------------------------------------------------------------
(* Redundancy against evaluation of the same rule list.                    *)

\* C10: for every pair (general, specific) that find_redundant_rules
\* returns, evaluate of the same rule list never has the specific rule in
\* matched_rules, whatever the query.
C10_RedundantUnreachable ==
    (Evaluated /\ redundant.exc = "none") =>
        \A k \in 1..Len(redundant.value) :
            \A m \in 1..Len(result.value.matched_rules) :
                result.value.matched_rules[m] # redundant.value[k][2]

-----------------------------------------------------------------------------
(* Redundancy analysis and evaluation over rule lists whose sources are    *)
(* IPv4 and IPv6 networks, addresses, a malformed CIDR and a set reference.*)

RedundantRules ==
    {Rule("accept", T.input, s, None, None, None, None, 0)
        : s \in {None, T.net8, T.host10_1, T.net6, T.badnet, T.setref}}
    \cup {Rule("drop", T.input, None, None, None, None, None, 0),
          Rule("accept", T.output, None, None, None, None, None, 0),
          Rule("accept", T.INPUT, None, None, None, None, None, 0)}

RedundantQueries ==
    {Query(T.host10_1, None, NoInt, NoInt, None, "in"),
     Query(<<"2", "0", "0", "1", ":", "d", "b", "8", ":", ":", "1">>, None, NoInt, NoInt, None, "in")}

InitRedundant ==
    /\ rules \in RuleLists(RedundantRules, MaxRules)
    /\ query = NoQuery
    /\ result = Pending
    /\ redundant = Pending
    /\ call = NoCall
    /\ ret = Pending

NextRedundant == Evaluate(RedundantQueries) \/ FindRedundant

SpecRedundant == InitRedundant /\ [][NextRedundant]_vars

\* rules[i] shadows rules[j]: _rule_shadows returns true for them.
Shadows(i, j) ==
    /\ _rule_shadows(rules[i], rules[j]).exc = "none"
    /\ _rule_shadows(rules[i], rules[j]).value

RECURSIVE PairsFrom(_, _)
\* The pairs (i, j), i < j, of one chain with rules[i] shadowing rules[j],
\* from position (i, j) on, ordered by (i, j).
PairsFrom(i, j) ==
    IF i > Len(rules) THEN <<>>
    ELSE IF j > Len(rules) THEN PairsFrom(i + 1, i + 2)
    ELSE IF rules[i].chain = rules[j].chain /\ Shadows(i, j)
         THEN <<(<<rules[i], rules[j]>>)>> \o PairsFrom(i, j + 1)
         ELSE PairsFrom(i, j + 1)

\* C11: find_redundant_rules returns exactly the pairs (rule1, rule2) with
\* rule1 before rule2 in the list, both of one chain, and rule1 shadowing
\* rule2, ordered by the two positions; the result is empty for a list of
\* zero or one rule.
C11_RedundantPairs ==
    redundant.exc # "pending" =>
        /\ redundant.exc = "none"
        /\ redundant.value = PairsFrom(1, 2)
        /\ Len(rules) <= 1 => redundant.value = <<>>

\* C12: evaluate and find_redundant_rules return a result for every list
\* of valid rules and every valid query; neither raises.
C12_NeverRaises ==
    /\ result.exc \in {"pending", "none"}
    /\ redundant.exc \in {"pending", "none"}

-----------------------------------------------------------------------------
(* Values as json.loads returns them, each with its Python type: None,     *)
(* int, str (a character sequence), list, and dict as the sequence of its  *)
(* (key, value) items in insertion order, keys being character sequences.  *)

JNull == [t |-> "null"]

JInt(n) == [t |-> "int", n |-> n]

JStr(s) == [t |-> "str", s |-> s]

JList(xs) == [t |-> "list", l |-> xs]

JObj(items) == [t |-> "dict", d |-> items]

\* `sub in s` for strs.
Contains(s, sub) ==
    \E i \in 1..(Len(s) - Len(sub) + 1) : SubSeq(s, i, i + Len(sub) - 1) = sub

\* The value stored under key in a dict that has the key.
DictValue(x, key) == x.d[CHOOSE i \in 1..Len(x.d) : x.d[i][1] = key][2]

HasKey(x, key) == \E i \in 1..Len(x.d) : x.d[i][1] = key

\* `key in x` for a str key.
py_in(key, x) ==
    CASE x.t = "dict" -> Ret(HasKey(x, key))
      [] x.t = "str" -> Ret(Len(key) = 0 \/ Contains(x.s, key))
      [] x.t = "list" -> Ret(\E i \in 1..Len(x.l) : x.l[i].t = "str" /\ x.l[i].s = key)
      [] OTHER -> Raise("TypeError")

\* `x[key]` for a str key.
py_item(x, key) ==
    IF x.t = "dict" THEN (IF HasKey(x, key) THEN Ret(DictValue(x, key)) ELSE Raise("KeyError"))
    ELSE Raise("TypeError")

\* x.get(key, default)
py_get(x, key, default) ==
    IF x.t = "dict" THEN Ret(IF HasKey(x, key) THEN DictValue(x, key) ELSE default)
    ELSE Raise("AttributeError")

\* The values `for e in x` runs through.
py_iter(x) ==
    CASE x.t = "list" -> Ret(x.l)
      [] x.t = "str" -> Ret([i \in 1..Len(x.s) |-> JStr(<<x.s[i]>>)])
      [] x.t = "dict" -> Ret([i \in 1..Len(x.d) |-> JStr(x.d[i][1])])
      [] OTHER -> Raise("TypeError")

RECURSIVE NatStr(_)
\* The decimal digits of a natural number.
NatStr(n) ==
    IF n < 10 THEN <<(<<"0", "1", "2", "3", "4", "5", "6", "7", "8", "9">>)[n + 1]>>
    ELSE NatStr(n \div 10) \o NatStr(n % 10)

RECURSIVE py_repr(_)
RECURSIVE ReprItems(_, _, _)
\* The repr of the elements of a list (dict = FALSE) or the items of a
\* dict (dict = TRUE) from index i on, separated by ", ".
ReprItems(xs, i, dict) ==
    IF i > Len(xs) THEN <<>>
    ELSE (IF i > 1 THEN <<",", " ">> ELSE <<>>)
         \o (IF dict THEN <<"'">> \o xs[i][1] \o <<"'", ":", " ">> \o py_repr(xs[i][2])
             ELSE py_repr(xs[i]))
         \o ReprItems(xs, i + 1, dict)

\* repr(x); strs hold neither quotes nor backslashes.
py_repr(x) ==
    CASE x.t = "null" -> <<"N", "o", "n", "e">>
      [] x.t = "int" -> IF x.n < 0 THEN <<"-">> \o NatStr(0 - x.n) ELSE NatStr(x.n)
      [] x.t = "str" -> <<"'">> \o x.s \o <<"'">>
      [] x.t = "list" -> <<"[">> \o ReprItems(x.l, 1, FALSE) \o <<"]">>
      [] x.t = "dict" -> <<"{">> \o ReprItems(x.d, 1, TRUE) \o <<"}">>

\* str(x)
py_str(x) == IF x.t = "str" THEN x.s ELSE py_repr(x)

\* The keys and field names of the JSON rule format.
K ==
    [nftables |-> <<"n", "f", "t", "a", "b", "l", "e", "s">>,
     rule |-> <<"r", "u", "l", "e">>,
     expr |-> <<"e", "x", "p", "r">>,
     accept |-> <<"a", "c", "c", "e", "p", "t">>,
     drop |-> <<"d", "r", "o", "p">>,
     reject |-> <<"r", "e", "j", "e", "c", "t">>,
     jump |-> <<"j", "u", "m", "p">>,
     return |-> <<"r", "e", "t", "u", "r", "n">>,
     match |-> <<"m", "a", "t", "c", "h">>,
     left |-> <<"l", "e", "f", "t">>,
     right |-> <<"r", "i", "g", "h", "t">>,
     payload |-> <<"p", "a", "y", "l", "o", "a", "d">>,
     field |-> <<"f", "i", "e", "l", "d">>,
     chain |-> <<"c", "h", "a", "i", "n">>,
     table |-> <<"t", "a", "b", "l", "e">>,
     saddr |-> <<"s", "a", "d", "d", "r">>,
     daddr |-> <<"d", "a", "d", "d", "r">>,
     sport |-> <<"s", "p", "o", "r", "t">>,
     dport |-> <<"d", "p", "o", "r", "t">>,
     protocol |-> <<"p", "r", "o", "t", "o", "c", "o", "l">>,
     metainfo |-> <<"m", "e", "t", "a", "i", "n", "f", "o">>,
     version |-> <<"v", "e", "r", "s", "i", "o", "n">>]

-----------------------------------------------------------------------------
(* parser/rule_parser.py: rules from JSON.  A parsed Rule carries, besides *)
(* the fields the evaluator reads, table, family, iif, oif and             *)
(* sets_referenced (an unordered list, kept as a set); raw is left out.    *)

Protocols ==
    {<<"t", "c", "p">>, <<"u", "d", "p">>, <<"i", "c", "m", "p">>,
     <<"i", "c", "m", "p", "v", "6">>, <<"a", "h">>, <<"e", "s", "p">>, <<"a", "n", "y">>}

\* Rule(...): validation of the model's fields.  chain and table arrive as
\* Python values and must be strs, protocol must be one of the literals or
\* None; the other fields are strs or None by construction.
new_Rule(action, chain, table, family, source, destination, sport, dport, protocol, line_number, iif, oif) ==
    IF chain.t # "str" \/ table.t # "str" \/ (protocol # None /\ protocol \notin Protocols)
    THEN Raise("ValidationError")
    ELSE Ret([action |-> action, chain |-> chain.s, table |-> table.s, family |-> family,
              source |-> source, destination |-> destination, sport |-> sport,
              dport |-> dport, protocol |-> protocol, line_number |-> line_number,
              iif |-> iif, oif |-> oif, sets_referenced |-> {}])

\* One pass of the verdict loop of _parse_json_rule.
verdict_of(expr, action) ==
    Then(py_in(K.accept, expr), LAMBDA accept :
        Ret(IF accept THEN "accept"
            ELSE IF py_in(K.drop, expr).value THEN "drop"
            ELSE IF py_in(K.reject, expr).value THEN "reject"
            ELSE IF py_in(K.jump, expr).value THEN "jump"
            ELSE IF py_in(K.return, expr).value THEN "return"
            ELSE action))

RECURSIVE json_action_first_wins(_, _, _)
\* The verdict loop stopping at the first expr that carries a verdict.
json_action_first_wins(exprs, i, action) ==
    IF i > Len(exprs) THEN Ret(action)
    ELSE Then(verdict_of(exprs[i], "none"), LAMBDA a :
            IF a # "none" THEN Ret(a) ELSE json_action_first_wins(exprs, i + 1, action))

RECURSIVE json_action(_, _, _)
\* The verdict loop of _parse_json_rule from the i-th expr on.
json_action(exprs, i, action) ==
    IF i > Len(exprs) THEN Ret(action)
    ELSE Then(verdict_of(exprs[i], action), LAMBDA a : json_action(exprs, i + 1, a))

\* `right if isinstance(right, str) else str(right)`, and str(right).
match_value(right) == py_str(right)

\* The if/elif chain on payload.get("field").
set_field(f, field, right) ==
    IF field.t # "str" THEN f
    ELSE IF field.s = K.saddr THEN [f EXCEPT !.source = match_value(right)]
    ELSE IF field.s = K.daddr THEN [f EXCEPT !.destination = match_value(right)]
    ELSE IF field.s = K.sport THEN [f EXCEPT !.sport = match_value(right)]
    ELSE IF field.s = K.dport THEN [f EXCEPT !.dport = match_value(right)]
    ELSE IF field.s = K.protocol THEN [f EXCEPT !.protocol = match_value(right)]
    ELSE f

\* `left = match["left"]; right = match["right"]` and what follows.
match_left_right(f, match) ==
    Then(py_item(match, K.left), LAMBDA left :
        Then(py_item(match, K.right), LAMBDA right :
            Then(py_in(K.payload, left), LAMBDA has_payload :
                IF ~has_payload THEN Ret(f)
                ELSE Then(py_item(left, K.payload), LAMBDA payload :
                        Then(py_get(payload, K.field, JNull), LAMBDA field :
                            Ret(set_field(f, field, right)))))))

\* One pass of the match loop of _parse_json_rule.
match_of(expr, f) ==
    Then(py_in(K.match, expr), LAMBDA has_match :
        IF ~has_match THEN Ret(f)
        ELSE Then(py_item(expr, K.match), LAMBDA match :
                Then(py_in(K.left, match), LAMBDA has_left :
                    IF ~has_left THEN Ret(f)
                    ELSE Then(py_in(K.right, match), LAMBDA has_right :
                            IF ~has_right THEN Ret(f) ELSE match_left_right(f, match)))))

RECURSIVE json_fields(_, _, _)
\* The match loop of _parse_json_rule from the i-th expr on.
json_fields(exprs, i, f) ==
    IF i > Len(exprs) THEN Ret(f)
    ELSE Then(match_of(exprs[i], f), LAMBDA g : json_fields(exprs, i + 1, g))

NoFields ==
    [source |-> None, destination |-> None, sport |-> None, dport |-> None, protocol |-> None]

\* `if "expr" in rule_data: for expr in rule_data["expr"]`: the exprs the
\* two loops run through.
json_exprs(rule_data) ==
    Then(py_in(K.expr, rule_data), LAMBDA has_expr :
        IF ~has_expr THEN Ret(<<>>)
        ELSE Then(py_item(rule_data, K.expr), LAMBDA exprs : py_iter(exprs)))

\* `return Rule(...)` of _parse_json_rule.
json_rule(rule_data, action, f, line_number) ==
    Then(py_get(rule_data, K.chain, JStr(T.input)), LAMBDA chain :
        Then(py_get(rule_data, K.table, JStr(T.filter)), LAMBDA table :
            new_Rule(action, chain, table, T.inet, f.source, f.destination, f.sport,
                     f.dport, f.protocol, line_number, None, None)))

\* The try block of _parse_json_rule.
_parse_json_rule_try(rule_data, line_number) ==
    Then(json_exprs(rule_data), LAMBDA exprs :
        Then(json_action(exprs, 1, "accept"), LAMBDA action :
            Then(json_fields(exprs, 1, NoFields), LAMBDA f :
                json_rule(rule_data, action, f, line_number))))

\* RuleParser._parse_json_rule(rule_data, line_number): <<rule>>, or <<>>
\* for None after any exception.
_parse_json_rule(rule_data, line_number) ==
    Let(_parse_json_rule_try(rule_data, line_number), LAMBDA o :
        IF o.exc = "none" THEN <<o.value>> ELSE <<>>)

\* ParseResult(): tables is the dict of tables as (key, Table) items in
\* insertion order, rules the flat list.
ParseResult(tables, rs) == [tables |-> tables, rules |-> rs]

RECURSIVE ConcatAll(_)
\* The concatenation of a sequence of lists.
ConcatAll(lists) ==
    IF Len(lists) = 0 THEN <<>> ELSE Head(lists) \o ConcatAll(Tail(lists))

RECURSIVE sorted_by_line_number(_)
\* sorted(rules, key=lambda r: r.line_number): a stable sort.
sorted_by_line_number(rs) ==
    IF Len(rs) <= 1 THEN rs
    ELSE Let(sorted_by_line_number(SubSeq(rs, 1, Len(rs) - 1)), LAMBDA front :
            SelectSeq(front, LAMBDA r : r.line_number <= rs[Len(rs)].line_number)
            \o <<rs[Len(rs)]>>
            \o SelectSeq(front, LAMBDA r : r.line_number > rs[Len(rs)].line_number))

\* The rules of the chains of one table, chain after chain.
table_rules(table) ==
    ConcatAll([i \in 1..Len(table.chains) |-> table.chains[i][2].rules])

\* ParseResult.get_all_rules()
get_all_rules(res) ==
    sorted_by_line_number(
        ConcatAll([i \in 1..Len(res.tables) |-> table_rules(res.tables[i][2])]))

\* json.loads(json_str) for a document given as what it decodes to, or as
\* not being JSON.
json_loads(doc) == IF doc.ok THEN Ret(doc.data) ELSE Raise("JSONDecodeError")

RECURSIVE json_items(_, _, _, _, _)
\* json_add taking a line number for a rule object it skips.
json_add_counting(items, i, rs, line_number, wrapped, rule_data) ==
    Let(_parse_json_rule(rule_data, line_number), LAMBDA rule :
        json_items(items, i + 1, rs \o rule, line_number + 1, wrapped))

RECURSIVE json_add(_, _, _, _, _, _)
\* `rule = _parse_json_rule(rule_data, line_number); if rule: ...`, then
\* the rest of the loop.
json_add(items, i, rs, line_number, wrapped, rule_data) ==
    Let(_parse_json_rule(rule_data, line_number), LAMBDA rule :
        IF Len(rule) > 0
        THEN json_items(items, i + 1, rs \o rule, line_number + 1, wrapped)
        ELSE json_items(items, i + 1, rs, line_number, wrapped))

\* The loop of parse_json_hierarchical from the i-th item on: over
\* data["nftables"] (wrapped) or over the bare list.
json_items(items, i, rs, line_number, wrapped) ==
    IF i > Len(items) THEN Ret(ParseResult(<<>>, rs))
    ELSE IF ~wrapped THEN json_add(items, i, rs, line_number, wrapped, items[i])
    ELSE Then(py_in(K.rule, items[i]), LAMBDA has_rule :
            IF ~has_rule THEN json_items(items, i + 1, rs, line_number, wrapped)
            ELSE Then(py_item(items[i], K.rule), LAMBDA rule_data :
                    json_add(items, i, rs, line_number, wrapped, rule_data)))

\* RuleParser.parse_json_hierarchical(json_str)
parse_json_hierarchical(doc) ==
    Then(json_loads(doc), LAMBDA data :
        Then(py_in(K.nftables, data), LAMBDA wrapped :
            IF wrapped
            THEN Then(py_item(data, K.nftables), LAMBDA nftables :
                    Then(py_iter(nftables), LAMBDA items : json_items(items, 1, <<>>, 1, TRUE)))
            ELSE IF data.t = "list" THEN json_items(data.l, 1, <<>>, 1, FALSE)
            ELSE Ret(ParseResult(<<>>, <<>>))))

\* RuleParser.parse_json(json_str)
parse_json(doc) ==
    Then(parse_json_hierarchical(doc), LAMBDA res : Ret(get_all_rules(res)))

-----------------------------------------------------------------------------
(* JSON documents: up to MaxItems rule objects, as a bare list or inside   *)
(* {"nftables": [...]} next to a metainfo item.  Each rule object is       *)
(* listed with whether a Rule can be built from it.                        *)

\* An expr item that carries an action: {k: null}, k being accept, drop, ...
Verdict(k) == JObj(<<(<<k, JNull>>)>>)

\* {"match": {"left": {"payload": {"field": field}}, "right": right}}
Match(field, right) ==
    JObj(<<(<<K.match,
              JObj(<<(<<K.left, JObj(<<(<<K.payload, JObj(<<(<<K.field, JStr(field)>>)>>)>>)>>)>>),
                     (<<K.right, right>>)>>)>>)>>)

\* {"chain": chain, "table": "filter", "expr": exprs}
RuleObject(chain, exprs) ==
    JObj(<<(<<K.chain, chain>>), (<<K.table, JStr(T.filter)>>), (<<K.expr, JList(exprs)>>)>>)

JsonRuleObjects ==
    {[obj |-> RuleObject(JStr(T.input), <<Match(K.dport, JInt(80)), Verdict(K.accept)>>),
      ok |-> TRUE],
     [obj |-> JObj(<<(<<K.expr, JList(<<Verdict(K.drop)>>)>>)>>), ok |-> TRUE],
     [obj |-> RuleObject(JStr(T.output),
                         <<Verdict(K.accept), Match(K.saddr, JStr(T.net8)), Verdict(K.drop)>>),
      ok |-> TRUE],
     [obj |-> RuleObject(JStr(T.input), <<Match(K.protocol, JStr(T.tcp))>>), ok |-> TRUE],
     [obj |-> RuleObject(JStr(T.web), <<Verdict(K.return), Verdict(K.jump)>>), ok |-> TRUE],
     [obj |-> RuleObject(JStr(T.input), <<Match(K.protocol, JInt(6)), Verdict(K.accept)>>),
      ok |-> FALSE],
     [obj |-> RuleObject(JInt(5), <<Verdict(K.drop)>>), ok |-> FALSE],
     [obj |-> JStr(T.web), ok |-> FALSE]}

\* The number of items of a JSON document.
MaxItems == 3

\* {"metainfo": {"version": "1.0.9"}}
MetaInfo == JObj(<<(<<K.metainfo, JObj(<<(<<K.version, JStr(T.v1_0_9)>>)>>)>>)>>)

\* The lists of at most n elements of a set.
ListsOf(S, n) == UNION {[1..k -> S] : k \in 0..n}

JsonDocs ==
    {[ok |-> TRUE, data |-> JList(l)] : l \in ListsOf({o.obj : o \in JsonRuleObjects}, MaxItems)}
    \cup {[ok |-> TRUE, data |-> JObj(<<(<<K.nftables, JList(l)>>)>>)]
            : l \in ListsOf({JObj(<<(<<K.rule, o.obj>>)>>) : o \in JsonRuleObjects}
                            \cup {MetaInfo}, MaxItems)}
    \cup {[ok |-> FALSE, data |-> JNull], [ok |-> TRUE, data |-> JObj(<<>>)]}

InitJson ==
    /\ call \in [fn : {"parse_json", "parse_json_hierarchical"}, doc : JsonDocs]
    /\ ret = Pending
    /\ rules = <<>>
    /\ query = NoQuery
    /\ result = Pending
    /\ redundant = Pending

\* RuleParser.parse_json(json_str)
ParseJson ==
    /\ call.fn = "parse_json" /\ ret.exc = "pending"
    /\ ret' = parse_json(call.doc)
    /\ UNCHANGED <<call, rules, query, result, redundant>>

\* RuleParser.parse_json_hierarchical(json_str)
ParseJsonHierarchical ==
    /\ call.fn = "parse_json_hierarchical" /\ ret.exc = "pending"
    /\ ret' = parse_json_hierarchical(call.doc)
    /\ UNCHANGED <<call, rules, query, result, redundant>>

NextJson == ParseJson \/ ParseJsonHierarchical

SpecJson == InitJson /\ [][NextJson]_vars

-----------------------------------------------------------------------------
(* Properties of the JSON parser.  What a rule object should give is read  *)
(* off the object: the verdict of the last expr that carries one, and the  *)
(* chain and table entries.                                                *)

\* The rule objects of the decoded document, in input order.
RuleObjectsOf(data) ==
    IF data.t = "list" THEN data.l
    ELSE IF ~HasKey(data, K.nftables) THEN <<>>
    ELSE Let(SelectSeq(DictValue(data, K.nftables).l, LAMBDA item : HasKey(item, K.rule)),
             LAMBDA items : [i \in 1..Len(items) |-> DictValue(items[i], K.rule)])

\* The rule object is one a Rule can be built from.
WellFormed(obj) == \E o \in JsonRuleObjects : o.obj = obj /\ o.ok

\* The well-formed rule objects of the document of the call.
GoodObjects == SelectSeq(RuleObjectsOf(call.doc.data), WellFormed)

ExprsOf(obj) == IF HasKey(obj, K.expr) THEN DictValue(obj, K.expr).l ELSE <<>>

VerdictKey(a) ==
    CASE a = "accept" -> K.accept [] a = "drop" -> K.drop [] a = "reject" -> K.reject
      [] a = "jump" -> K.jump [] a = "return" -> K.return

\* The positions of the exprs that carry a verdict.
VerdictPositions(obj) ==
    {i \in 1..Len(ExprsOf(obj)) :
        \E a \in {"accept", "drop", "reject", "jump", "return"} :
            HasKey(ExprsOf(obj)[i], VerdictKey(a))}

\* The verdict of the last verdict-bearing expr; accept when there is none.
LastVerdict(obj) ==
    IF VerdictPositions(obj) = {} THEN "accept"
    ELSE CHOOSE a \in {"accept", "drop", "reject", "jump", "return"} :
            HasKey(ExprsOf(obj)[CHOOSE i \in VerdictPositions(obj) :
                                    \A j \in VerdictPositions(obj) : j <= i],
                   VerdictKey(a))

EntryOr(obj, key, default) == IF HasKey(obj, key) THEN DictValue(obj, key).s ELSE default

DecodedDocument == call.doc.ok /\ call.doc.data.t \in {"list", "dict"}

\* C13: parse_json returns the rules it parsed: n well-formed rule objects,
\* in the nftables format or as a bare list, give a list of n Rules in
\* input order, each with its object's action and chain.
C13_ParseJsonReturnsRules ==
    (Returned("parse_json") /\ DecodedDocument) =>
        /\ ret.exc = "none"
        /\ Len(ret.value) = Len(GoodObjects)
        /\ \A k \in 1..Len(ret.value) :
            /\ ret.value[k].action = LastVerdict(GoodObjects[k])
            /\ ret.value[k].chain = EntryOr(GoodObjects[k], K.chain, T.input)

\* C18: the action of a rule parsed from JSON is the verdict of the last
\* expr that carries accept, drop, reject, jump or return, and accept when
\* none does; chain and table default to 'input' and 'filter'.
C18_JsonAction ==
    (Returned("parse_json_hierarchical") /\ DecodedDocument) =>
        /\ ret.exc = "none"
        /\ Len(ret.value.rules) = Len(GoodObjects)
        /\ \A k \in 1..Len(ret.value.rules) :
            /\ ret.value.rules[k].action = LastVerdict(GoodObjects[k])
            /\ ret.value.rules[k].chain = EntryOr(GoodObjects[k], K.chain, T.input)
            /\ ret.value.rules[k].table = EntryOr(GoodObjects[k], K.table, T.filter)

\* C18 witness: a rule object whose exprs carry accept and later drop was
\* parsed into a drop rule, after one without chain and table entries.
C18_Witness ==
    /\ Returned("parse_json_hierarchical") /\ DecodedDocument
    /\ Len(ret.value.rules) = 2
    /\ ~HasKey(GoodObjects[1], K.chain)
    /\ ret.value.rules[1].chain = T.input
    /\ VerdictPositions(GoodObjects[2]) = {1, 3}
    /\ ret.value.rules[2].action = "drop"

\* C19: a rule object from which no Rule can be built is skipped alone: it
\* gives no rule and takes no line number, the parse does not raise, and
\* every well-formed object is still parsed, so the rules are the
\* well-formed objects in order, numbered 1, 2, 3, ...
C19_LocalRecovery ==
    (Returned("parse_json_hierarchical") /\ DecodedDocument) =>
        /\ ret.exc = "none"
        /\ Len(ret.value.rules) = Len(GoodObjects)
        /\ \A k \in 1..Len(ret.value.rules) :
            /\ ret.value.rules[k].line_number = k
            /\ ret.value.rules[k].action = LastVerdict(GoodObjects[k])

\* C19 witness: a malformed rule object stood between two well-formed ones,
\* and both were parsed.
C19_Witness ==
    /\ Returned("parse_json_hierarchical") /\ DecodedDocument
    /\ Len(RuleObjectsOf(call.doc.data)) = 3
    /\ WellFormed(RuleObjectsOf(call.doc.data)[1])
    /\ ~WellFormed(RuleObjectsOf(call.doc.data)[2])
    /\ WellFormed(RuleObjectsOf(call.doc.data)[3])
    /\ Len(ret.value.rules) = 2
    /\ ret.value.rules[2].line_number = 2

-----------------------------------------------------------------------------
(* models/query.py: construction of a Query.  A port is <<>> (None) or     *)
(* <<n>>, the direction <<>> (not given) or <<d>>.                         *)

QueryProtocols == {<<"t", "c", "p">>, <<"u", "d", "p">>, <<"i", "c", "m", "p">>, <<"a", "n", "y">>}

\* Field(default=None, ge=1, le=65535)
port_valid(p) == p = NoInt \/ (1 <= p[1] /\ p[1] <= 65535)

\* Query.validate_protocol(v)
validate_protocol(v) ==
    IF v = None THEN Ret(None)
    ELSE IF Lower(v) \notin QueryProtocols THEN Raise("ValueError")
    ELSE Ret(Lower(v))

\* direction: Literal["in", "out", "forward"], default "in"
direction_valid(d) == d = <<>> \/ d[1] \in {"in", "out", "forward"}

\* Query validation with every port accepted.
new_Query_any_port(src_ip, dst_ip, src_port, dst_port, protocol, direction) ==
    IF ~direction_valid(direction) \/ validate_protocol(protocol).exc # "none"
    THEN Raise("ValidationError")
    ELSE Ret(Query(src_ip, dst_ip, src_port, dst_port, validate_protocol(protocol).value,
                   IF direction = <<>> THEN "in" ELSE direction[1]))

\* Query(src_ip=..., ..., direction=...): a Query, or a ValidationError when
\* a field fails its validation.
new_Query(src_ip, dst_ip, src_port, dst_port, protocol, direction) ==
    IF \/ ~port_valid(src_port) \/ ~port_valid(dst_port)
       \/ ~direction_valid(direction) \/ validate_protocol(protocol).exc # "none"
    THEN Raise("ValidationError")
    ELSE Ret(Query(src_ip, dst_ip, src_port, dst_port, validate_protocol(protocol).value,
                   IF direction = <<>> THEN "in" ELSE direction[1]))

QueryPorts == {NoInt, <<0 - 1>>, <<0>>, <<1>>, <<80>>, <<65535>>, <<65536>>}

\* Protocol arguments, each with its lower-case form.
QueryProtocolTexts ==
    {<<<<"t", "c", "p">>, "tcp">>, <<<<"T", "C", "P">>, "tcp">>, <<<<"U", "d", "p">>, "udp">>,
     <<<<"i", "c", "m", "p">>, "icmp">>, <<<<"a", "n", "y">>, "any">>, <<<<"A", "N", "Y">>, "any">>,
     <<<<"i", "c", "m", "p", "v", "6">>, "icmpv6">>, <<<<"s", "c", "t", "p">>, "sctp">>,
     <<<<>>, "">>}

QueryDirections == {<<>>, <<"in">>, <<"out">>, <<"forward">>, <<"IN">>, <<"both">>, <<"">>}

InitQuery ==
    /\ call \in [fn : {"Query"}, src_ip : {T.host10_1}, dst_ip : {None},
                 src_port : QueryPorts, dst_port : QueryPorts,
                 protocol : {t[1] : t \in QueryProtocolTexts} \cup {None},
                 direction : QueryDirections]
    /\ ret = Pending
    /\ rules = <<>>
    /\ query = NoQuery
    /\ result = Pending
    /\ redundant = Pending

\* Query(...)
NewQuery ==
    /\ call.fn = "Query" /\ ret.exc = "pending"
    /\ ret' = new_Query(call.src_ip, call.dst_ip, call.src_port, call.dst_port,
                        call.protocol, call.direction)
    /\ UNCHANGED <<call, rules, query, result, redundant>>

NextQuery == NewQuery

SpecQuery == InitQuery /\ [][NextQuery]_vars

\* The lower-case form of a protocol argument.
LowerKey(t) == (CHOOSE l \in QueryProtocolTexts : l[1] = t)[2]

PortOutOfRange(p) == p # NoInt /\ (p[1] < 1 \/ p[1] > 65535)

\* The lower-case name of a protocol character sequence of a Query.
QueryProtocolName(p) ==
    CASE p = <<"t", "c", "p">> -> "tcp" [] p = <<"u", "d", "p">> -> "udp"
      [] p = <<"i", "c", "m", "p">> -> "icmp" [] p = <<"a", "n", "y">> -> "any"
      [] OTHER -> "other"

\* C20: Query construction fails with a validation error whenever a port
\* is outside 1..65535 or the lower-cased protocol is not tcp, udp, icmp or
\* any; a constructed Query has ports in 1..65535 or absent, a lower-case
\* protocol of that set or absent, and a direction in, out or forward,
\* which is in when none was given.
C20_QueryValidation ==
    Returned("Query") =>
        /\ (\/ PortOutOfRange(call.src_port) \/ PortOutOfRange(call.dst_port)
            \/ (call.protocol # None
                /\ LowerKey(call.protocol) \notin {"tcp", "udp", "icmp", "any"}))
           => ret.exc = "ValidationError"
        /\ ret.exc \in {"none", "ValidationError"}
        /\ ret.exc = "none" =>
            /\ \A p \in {ret.value.src_port, ret.value.dst_port} :
                p = NoInt \/ p[1] \in 1..65535
            /\ ret.value.src_port = call.src_port /\ ret.value.dst_port = call.dst_port
            /\ \/ ret.value.protocol = None /\ call.protocol = None
               \/ /\ call.protocol # None
                  /\ QueryProtocolName(ret.value.protocol) = LowerKey(call.protocol)
                  /\ LowerKey(call.protocol) \in {"tcp", "udp", "icmp", "any"}
            /\ ret.value.direction \in {"in", "out", "forward"}
            /\ call.direction = <<>> => ret.value.direction = "in"

\* C20 witness: a Query was built from an upper-case protocol, the port
\* bounds 1 and 65535 and no direction.
C20_Witness ==
    /\ Returned("Query")
    /\ call.protocol = <<"T", "C", "P">> /\ call.direction = <<>>
    /\ call.src_port = <<1>> /\ call.dst_port = <<65535>>
    /\ ret.exc = "none"
    /\ ret.value.protocol = <<"t", "c", "p">>
    /\ ret.value.direction = "in"

-----------------------------------------------------------------------------
(* The re module, for the patterns of the text parser.  A pattern is a     *)
(* tree of records; a match in progress is [pos, g]: the next position of  *)
(* the text and the texts of the groups, <<>> for a group that has not     *)
(* matched and <<text>> otherwise.                                         *)

\* \s, \w and \d for the characters of the texts
Space == {" ", "\t"}

Letters ==
    {"a", "b", "c", "d", "e", "f", "g", "h", "i", "j", "k", "l", "m", "n", "o", "p", "q",
     "r", "s", "t", "u", "v", "w", "x", "y", "z", "A", "B", "C", "D", "E", "F"}

Word == Letters \cup Digits \cup {"_"}

\* [...] and [^...]
Chr(cs) == [k |-> "chr", cs |-> cs, neg |-> FALSE]

Not(cs) == [k |-> "chr", cs |-> cs, neg |-> TRUE]

\* The characters of s, literally.
Lit(s) == [k |-> "lit", s |-> s]

Alt(a, b) == [k |-> "alt", a |-> a, b |-> b]

\* a* and a+ (greedy) for a character class a
Star(a) == [k |-> "star", cs |-> a.cs, neg |-> a.neg]

Plus(a) == [k |-> "seq", a |-> a, b |-> Star(a)]

\* a?
Opt(a) == Alt(a, Lit(<<>>))

\* (a) as group n
Grp(n, a) == [k |-> "grp", n |-> n, a |-> a]

RECURSIVE Cat(_)
\* The patterns of a list one after the other.
Cat(ps) ==
    IF Len(ps) = 1 THEN ps[1] ELSE [k |-> "seq", a |-> ps[1], b |-> Cat(Tail(ps))]

\* The matches ms with group n set to the text from position start on.
re_group(n, s, start, ms) ==
    [i \in 1..Len(ms) |-> [ms[i] EXCEPT !.g[n] = <<SubSeq(s, start, ms[i].pos - 1)>>]]

\* The length of the longest run of characters of the class re in s from
\* position pos on.
Span(re, s, pos) ==
    CHOOSE n \in 0..(Len(s) - pos + 1) :
        /\ \A i \in pos..(pos + n - 1) : (s[i] \in re.cs) # re.neg
        /\ pos + n > Len(s) \/ ((s[pos + n] \in re.cs) = re.neg)

\* The matches of a starred class with a longest run of n characters: the
\* longest first.
Shorter(m, n) == [j \in 1..(n + 1) |-> [m EXCEPT !.pos = m.pos + n + 1 - j]]

RECURSIVE re_run(_, _, _)
RECURSIVE re_each(_, _, _)
\* The ways pattern re matches s from the match m on, in the order in which
\* the backtracking matcher tries them.
re_run(re, s, m) ==
    CASE re.k = "lit" ->
            IF m.pos + Len(re.s) - 1 <= Len(s) /\ SubSeq(s, m.pos, m.pos + Len(re.s) - 1) = re.s
            THEN <<[m EXCEPT !.pos = @ + Len(re.s)]>> ELSE <<>>
      [] re.k = "chr" ->
            IF m.pos <= Len(s) /\ ((s[m.pos] \in re.cs) # re.neg)
            THEN <<[m EXCEPT !.pos = @ + 1]>> ELSE <<>>
      [] re.k = "seq" -> re_each(re.b, s, re_run(re.a, s, m))
      [] re.k = "alt" -> re_run(re.a, s, m) \o re_run(re.b, s, m)
      [] re.k = "star" -> Shorter(m, Span(re, s, m.pos))
      [] re.k = "grp" -> re_group(re.n, s, m.pos, re_run(re.a, s, m))

\* The ways re matches from each of the matches ms on, those from an
\* earlier one first.
re_each(re, s, ms) ==
    IF Len(ms) = 0 THEN <<>>
    ELSE IF Len(ms) = 1 THEN re_run(re, s, ms[1])
    ELSE re_each(re, s, SubSeq(ms, 1, Len(ms) \div 2))
         \o re_each(re, s, SubSeq(ms, Len(ms) \div 2 + 1, Len(ms)))

\* The first of the matches ms as <<m>>, <<>> when there is none.
First(ms) == IF Len(ms) = 0 THEN <<>> ELSE <<ms[1]>>

\* A match that starts at position i with no group set.
MatchAt(i) == [pos |-> i, g |-> <<<<>>, <<>>, <<>>, <<>>>>]

\* re.match(re, s): <<>> for None, <<m>> for a match.
re_match(re, s) == First(re_run(re, s, MatchAt(1)))

\* The positions of s from i on at which re matches.
Starts(re, s, i) == {j \in i..(Len(s) + 1) : Len(re_run(re, s, MatchAt(j))) > 0}

\* re.search(re, s) from position i on: the match at the first position
\* that has one.
re_search(re, s, i) ==
    IF Starts(re, s, i) = {} THEN <<>>
    ELSE First(re_run(re, s, MatchAt(CHOOSE j \in Starts(re, s, i) :
                                        \A k \in Starts(re, s, i) : j <= k)))

RECURSIVE re_findall(_, _, _)
\* re.findall(re, s) from position i on, for a pattern without empty
\* matches: the groups of the successive matches.
re_findall(re, s, i) ==
    IF Len(re_search(re, s, i)) = 0 THEN <<>>
    ELSE <<re_search(re, s, i)[1].g>> \o re_findall(re, s, re_search(re, s, i)[1].pos)

\* m.group(n) of an optional match that is present; None for an unset group.
group(m, n) == IF Len(m[1].g[n]) = 0 THEN None ELSE m[1].g[n][1]

-----------------------------------------------------------------------------
(* parser/rule_parser.py: the text format.                                 *)

\* The words the text parser looks for.
W ==
    [table |-> <<"t", "a", "b", "l", "e">>, set |-> <<"s", "e", "t">>, chain |-> <<"c", "h", "a", "i", "n">>, type |-> <<"t", "y", "p", "e">>, type_ |-> <<"t", "y", "p", "e", " ">>,
     flags |-> <<"f", "l", "a", "g", "s">>, elements |-> <<"e", "l", "e", "m", "e", "n", "t", "s">>, hook |-> <<"h", "o", "o", "k">>, priority |-> <<"p", "r", "i", "o", "r", "i", "t", "y">>,
     policy |-> <<"p", "o", "l", "i", "c", "y">>, ip |-> <<"i", "p">>, ip6 |-> <<"i", "p", "6">>, saddr |-> <<"s", "a", "d", "d", "r">>, daddr |-> <<"d", "a", "d", "d", "r">>,
     sport |-> <<"s", "p", "o", "r", "t">>, dport |-> <<"d", "p", "o", "r", "t">>, iif |-> <<"i", "i", "f">>, oif |-> <<"o", "i", "f">>, unknown |-> <<"u", "n", "k", "n", "o", "w", "n">>,
     accept |-> <<"a", "c", "c", "e", "p", "t">>, drop |-> <<"d", "r", "o", "p">>, counter |-> <<"c", "o", "u", "n", "t", "e", "r">>, tcp |-> <<"t", "c", "p">>, udp |-> <<"u", "d", "p">>,
     icmp |-> <<"i", "c", "m", "p">>, icmpv6 |-> <<"i", "c", "m", "p", "v", "6">>, ah |-> <<"a", "h">>, esp |-> <<"e", "s", "p">>, ct |-> <<"c", "t">>,
     _accept |-> <<" ", "a", "c", "c", "e", "p", "t">>, _drop |-> <<" ", "d", "r", "o", "p">>, _reject |-> <<" ", "r", "e", "j", "e", "c", "t">>, _jump_ |-> <<" ", "j", "u", "m", "p", " ">>,
     _return |-> <<" ", "r", "e", "t", "u", "r", "n">>, _counter_ |-> <<" ", "c", "o", "u", "n", "t", "e", "r", " ">>, _log_ |-> <<" ", "l", "o", "g", " ">>,
     tcp_ |-> <<"t", "c", "p", " ">>, _tcp |-> <<" ", "t", "c", "p">>, udp_ |-> <<"u", "d", "p", " ">>, _udp |-> <<" ", "u", "d", "p">>, icmp_ |-> <<"i", "c", "m", "p", " ">>,
     _icmp |-> <<" ", "i", "c", "m", "p">>, icmpv6_ |-> <<"i", "c", "m", "p", "v", "6", " ">>, _ah_ |-> <<" ", "a", "h", " ">>, _ah |-> <<" ", "a", "h">>,
     _esp_ |-> <<" ", "e", "s", "p", " ">>, _esp |-> <<" ", "e", "s", "p">>]

\* [\w\-]
NameChars == Word \cup {"-"}

\* r"table\s+(\w+)\s+(\w+)\s*\{?"
re_table ==
    Cat(<<Lit(W.table), Plus(Chr(Space)), Grp(1, Plus(Chr(Word))), Plus(Chr(Space)),
          Grp(2, Plus(Chr(Word))), Star(Chr(Space)), Opt(Chr({"{"}))>>)

\* r"set\s+([\w\-]+)\s*\{?" and r"chain\s+([\w\-]+)\s*\{?"
re_block(word) ==
    Cat(<<Lit(word), Plus(Chr(Space)), Grp(1, Plus(Chr(NameChars))), Star(Chr(Space)),
          Opt(Chr({"{"}))>>)

\* r"type\s+(.+)" and r"flags\s+(.+)"
re_setting(word) == Cat(<<Lit(word), Plus(Chr(Space)), Grp(1, Plus(Not({})))>>)

\* r"elements\s*=\s*\{(.+)\}?"
re_elements ==
    Cat(<<Lit(W.elements), Star(Chr(Space)), Chr({"="}), Star(Chr(Space)), Chr({"{"}),
          Grp(1, Plus(Not({}))), Opt(Chr({"}"}))>>)

\* r'"([^"]+)"|([^,\s\}]+)'
re_element ==
    Alt(Cat(<<Chr({"\""}), Grp(1, Plus(Not({"\""}))), Chr({"\""})>>),
        Grp(2, Plus(Not({",", "}"} \cup Space))))

\* r"type\s+(\w+)\s+hook\s+(\w+)\s+priority\s+([^;]+);\s*(?:policy\s+(\w+);)?"
re_chain_type ==
    Cat(<<Lit(W.type), Plus(Chr(Space)), Grp(1, Plus(Chr(Word))), Plus(Chr(Space)),
          Lit(W.hook), Plus(Chr(Space)), Grp(2, Plus(Chr(Word))), Plus(Chr(Space)),
          Lit(W.priority), Plus(Chr(Space)), Grp(3, Plus(Not({";"}))), Chr({";"}),
          Star(Chr(Space)),
          Opt(Cat(<<Lit(W.policy), Plus(Chr(Space)), Grp(4, Plus(Chr(Word))), Chr({";"})>>))>>)

\* r"@([\w\-]+)"
re_set_ref == Cat(<<Chr({"@"}), Grp(1, Plus(Chr(NameChars)))>>)

\* r"(?:ip|ip6)?\s*saddr\s+([\d\./a-fA-F:]+|\@[\w\-]+)", and for daddr
re_addr(word) ==
    Cat(<<Opt(Alt(Lit(W.ip), Lit(W.ip6))), Star(Chr(Space)), Lit(word), Plus(Chr(Space)),
          Grp(1, Alt(Plus(Chr(HexDigits \cup {".", "/", ":"})),
                     Cat(<<Chr({"@"}), Plus(Chr(NameChars))>>)))>>)

\* r"sport\s+(\d+(?:-\d+)?|\@[\w\-]+)", and for dport
re_port(word) ==
    Cat(<<Lit(word), Plus(Chr(Space)),
          Grp(1, Alt(Cat(<<Plus(Chr(Digits)), Opt(Cat(<<Chr({"-"}), Plus(Chr(Digits))>>))>>),
                     Cat(<<Chr({"@"}), Plus(Chr(NameChars))>>)))>>)

\* r"iif\s+([\w\-]+|\@[\w\-]+)", and for oif
re_interface(word) ==
    Cat(<<Lit(word), Plus(Chr(Space)),
          Grp(1, Alt(Plus(Chr(NameChars)), Cat(<<Chr({"@"}), Plus(Chr(NameChars))>>)))>>)

\* s.strip() for blanks and tabs
strip(s) ==
    IF \A i \in 1..Len(s) : s[i] \in Space THEN <<>>
    ELSE SubSeq(s, CHOOSE i \in 1..Len(s) : s[i] \notin Space /\ \A j \in 1..(i - 1) : s[j] \in Space,
                   CHOOSE i \in 1..Len(s) : s[i] \notin Space /\ \A j \in (i + 1)..Len(s) : s[j] \in Space)

\* s.startswith(p) and s.endswith(p)
startswith(s, p) == Len(p) <= Len(s) /\ SubSeq(s, 1, Len(p)) = p

endswith(s, p) == Len(p) <= Len(s) /\ SubSeq(s, Len(s) - Len(p) + 1, Len(s)) = p

\* s.count(c) for a one-character c
count(s, c) == Cardinality({i \in 1..Len(s) : s[i] = c})

\* Mutant of text_action: a line without a recognised action gives no rule.
text_action_no_default(ls) ==
    IF Contains(ls, W._accept) THEN "accept"
    ELSE IF Contains(ls, W._drop) THEN "drop"
    ELSE IF Contains(ls, W._reject) THEN "reject"
    ELSE IF Contains(ls, W._jump_) THEN "jump"
    ELSE IF Contains(ls, W._return) THEN "return"
    ELSE IF Contains(ls, W._counter_) \/ endswith(ls, W.counter) THEN "counter"
    ELSE IF Contains(ls, W._log_) THEN "log"
    ELSE "none"

\* The if/elif chain of _parse_text_rule that extracts the action; "none"
\* where the code returns None.
text_action(ls) ==
    IF Contains(ls, W._accept) THEN "accept"
    ELSE IF Contains(ls, W._drop) THEN "drop"
    ELSE IF Contains(ls, W._reject) THEN "reject"
    ELSE IF Contains(ls, W._jump_) THEN "jump"
    ELSE IF Contains(ls, W._return) THEN "return"
    ELSE IF Contains(ls, W._counter_) \/ endswith(ls, W.counter) THEN "counter"
    ELSE IF Contains(ls, W._log_) THEN "log"
    ELSE IF ~\E kw \in {W.tcp, W.udp, W.icmp, W.ip, W.iif, W.oif, W.ct} : Contains(ls, kw)
         THEN "none"
    ELSE "accept"

\* The if/elif chain of _parse_text_rule that extracts the protocol.
text_protocol(ls) ==
    IF Contains(ls, W.tcp_) \/ Contains(ls, W._tcp) THEN W.tcp
    ELSE IF Contains(ls, W.udp_) \/ Contains(ls, W._udp) THEN W.udp
    ELSE IF Contains(ls, W.icmp_) \/ Contains(ls, W._icmp) THEN W.icmp
    ELSE IF Contains(ls, W.icmpv6_) THEN W.icmpv6
    ELSE IF Contains(ls, W._ah_) \/ Contains(ls, W._ah) THEN W.ah
    ELSE IF Contains(ls, W._esp_) \/ Contains(ls, W._esp) THEN W.esp
    ELSE None

\* `m = re.search(re, s)` followed by `m.group(1) if m else None`.
search_group(re, s) == IF Len(re_search(re, s, 1)) = 0 THEN None ELSE group(re_search(re, s, 1), 1)

\* The Rule of _parse_text_rule for an action, with raw set.
text_rule(action, ls, table, chain, family, line_number) ==
    Then(new_Rule(action, JStr(chain), JStr(table), family,
                  search_group(re_addr(W.saddr), ls), search_group(re_addr(W.daddr), ls),
                  search_group(re_port(W.sport), ls), search_group(re_port(W.dport), ls),
                  text_protocol(ls), line_number,
                  search_group(re_interface(W.iif), ls), search_group(re_interface(W.oif), ls)),
         LAMBDA r : Ret(<<[raw |-> ls] @@ r>>))

\* RuleParser._parse_text_rule(line, table, chain, family, line_number):
\* <<>> for None, <<rule>> for a Rule.
_parse_text_rule(line, table, chain, family, line_number) ==
    IF startswith(strip(line), W.type_) \/ strip(line) = <<"}">> \/ strip(line) = <<"{">>
    THEN <<>>
    ELSE IF text_action(strip(line)) = "none" THEN <<>>
    ELSE OrElse(text_rule(text_action(strip(line)), strip(line), table, chain, family,
                          line_number),
                Ret(<<>>)).value

\* A dict is the list of its <<key, value>> items in insertion order.
HasItem(d, key) == \E i \in 1..Len(d) : d[i][1] = key

\* d[key] for a key of d
ItemOf(d, key) == d[CHOOSE i \in 1..Len(d) : d[i][1] = key][2]

\* d[key] = value
SetItem(d, key, value) ==
    IF HasItem(d, key) THEN [i \in 1..Len(d) |-> IF d[i][1] = key THEN <<key, value>> ELSE d[i]]
    ELSE Append(d, <<key, value>>)

RECURSIVE SetItems(_, _)
\* `for key, value in items: d[key] = value`
SetItems(d, items) ==
    IF Len(items) = 0 THEN d ELSE SetItems(SetItem(d, items[1][1], items[1][2]), Tail(items))

\* models/rule.py: Table(name=..., family=..., line_number=...); chains holds
\* references to Chain objects.
new_Table(name, family, line_number) ==
    [name |-> name, family |-> family, chains |-> <<>>, sets |-> <<>>,
     line_number |-> line_number]

\* models/rule.py: Chain(name=..., table=..., family=..., line_number=...)
new_Chain(name, table, family, line_number) ==
    [name |-> name, table |-> table, family |-> family, type |-> None, hook |-> None,
     priority |-> None, policy |-> W.accept, rules |-> <<>>, line_number |-> line_number]

\* models/rule.py: SetDefinition(name=..., table=..., family=..., type=...,
\* line_number=...)
new_SetDefinition(name, table, family, type, line_number) ==
    [name |-> name, table |-> table, family |-> family, type |-> type, flags |-> <<>>,
     elements |-> <<>>, line_number |-> line_number]

\* The state of parse_text_hierarchical before the first line.  tobj and
\* cobj hold the Table and Chain objects made so far; a reference to one is
\* its index, 0 stands for None.  tables and rules are the two fields of the
\* ParseResult, tables with references to Table objects.
ParserStart ==
    [tables |-> <<>>, rules |-> <<>>, tobj |-> <<>>, cobj |-> <<>>,
     current_table |-> 0, current_chain |-> 0, current_set |-> <<>>,
     in_set_block |-> FALSE, set_elements |-> <<>>, brace_depth |-> 0, line_number |-> 0]

\* f"{table.family}_{table.name}"
table_key(table) == table.family \o <<"_">> \o table.name

\* result.add_table(table) for the Table object with reference t.
add_table(p, t) ==
    IF ~HasItem(p.tables, table_key(p.tobj[t]))
    THEN [p EXCEPT !.tables = Append(@, <<table_key(p.tobj[t]), t>>)]
    ELSE [p EXCEPT !.tobj[ItemOf(p.tables, table_key(p.tobj[t]))] =
              [@ EXCEPT !.chains = SetItems(@, p.tobj[t].chains),
                        !.sets = SetItems(@, p.tobj[t].sets)]]

\* The branch of a table declaration (rule_parser.py:208-220).
on_table(p, m) ==
    add_table([p EXCEPT !.tobj = Append(@, new_Table(group(m, 2), group(m, 1), p.line_number)),
                        !.current_table = Len(p.tobj) + 1,
                        !.current_chain = 0,
                        !.current_set = <<>>,
                        !.in_set_block = FALSE],
              Len(p.tobj) + 1)

\* The branch of a set declaration (rule_parser.py:224-235).
on_set(p, m) ==
    [p EXCEPT !.current_set = <<new_SetDefinition(group(m, 1), p.tobj[p.current_table].name,
                                                  p.tobj[p.current_table].family, W.unknown,
                                                  p.line_number)>>,
              !.in_set_block = TRUE,
              !.set_elements = <<>>]

\* `elem[0] or elem[1]` for a tuple of re.findall (an unset group is the
\* empty str).
element(found) ==
    IF Len(found[1]) > 0 THEN found[1][1] ELSE IF Len(found[2]) > 0 THEN found[2][1] ELSE <<>>

RECURSIVE elements_of(_)
\* The elements appended for the tuples of re.findall.
elements_of(found) ==
    IF Len(found) = 0 THEN <<>>
    ELSE (IF Len(element(found[1])) > 0 /\ element(found[1]) \notin {<<"{">>, <<"}">>}
          THEN <<strip(element(found[1]))>> ELSE <<>>)
         \o elements_of(Tail(found))

\* The end of a set block (rule_parser.py:270-275).
close_set(p) ==
    [p EXCEPT !.tobj = IF p.current_table = 0 THEN @
                       ELSE [@ EXCEPT ![p.current_table].sets =
                                SetItem(@, p.current_set[1].name,
                                        [p.current_set[1] EXCEPT !.elements = p.set_elements])],
              !.in_set_block = FALSE,
              !.current_set = <<>>]

\* The multi-line elements and the end of the set block
\* (rule_parser.py:263-276).
set_tail(p, line) ==
    IF Has(line, "}") THEN close_set(p) ELSE p

\* A line inside a set block (rule_parser.py:238-276).
set_line(p, line) ==
    IF Len(re_match(re_setting(W.type), line)) > 0
    THEN [p EXCEPT !.current_set[1].type = strip(group(re_match(re_setting(W.type), line), 1))]
    ELSE IF Len(re_match(re_setting(W.flags), line)) > 0
    THEN [p EXCEPT !.current_set[1].flags =
             [i \in 1..Len(Split(group(re_match(re_setting(W.flags), line), 1), ",")) |->
                 strip(Split(group(re_match(re_setting(W.flags), line), 1), ",")[i])]]
    ELSE IF Len(re_match(re_elements, line)) > 0
    THEN [p EXCEPT !.set_elements =
             @ \o elements_of(re_findall(re_element, group(re_match(re_elements, line), 1), 1))]
    ELSE IF ~Contains(line, W.elements) /\ ~startswith(line, W.type) /\ ~startswith(line, W.flags)
    THEN set_tail([p EXCEPT !.set_elements = @ \o elements_of(re_findall(re_element, line, 1))],
                  line)
    ELSE set_tail(p, line)

\* The branch of a chain declaration (rule_parser.py:280-289).
on_chain(p, m) ==
    [p EXCEPT !.cobj = Append(@, new_Chain(group(m, 1), p.tobj[p.current_table].name,
                                           p.tobj[p.current_table].family, p.line_number)),
              !.tobj[p.current_table].chains = SetItem(@, group(m, 1), Len(p.cobj) + 1),
              !.current_chain = Len(p.cobj) + 1]

\* The branch of a chain's type line (rule_parser.py:292-303) for the
\* optional match m.
on_chain_type(p, m) ==
    IF Len(m) = 0 THEN p
    ELSE [p EXCEPT !.cobj[p.current_chain] =
             [@ EXCEPT !.type = group(m, 1), !.hook = group(m, 2), !.priority = group(m, 3),
                       !.policy = IF group(m, 4) # None THEN group(m, 4) ELSE @]]

\* Mutant of on_close: the closing brace of a chain leaves the chain current.
on_close_keeps_chain(p) ==
    IF p.brace_depth = 0 THEN [p EXCEPT !.current_table = 0] ELSE p

\* The branch of a closing brace (rule_parser.py:306-311).
on_close(p) ==
    IF p.brace_depth = 1 THEN [p EXCEPT !.current_chain = 0]
    ELSE IF p.brace_depth = 0 THEN [p EXCEPT !.current_table = 0]
    ELSE p

\* The set of the names of re.findall(r"@([\w\-]+)", original_line).
set_refs(found) == {found[i][1][1] : i \in 1..Len(found)}

\* The branch of a rule line (rule_parser.py:314-328) for the optional rule.
on_rule(p, rule, original_line) ==
    IF Len(rule) = 0 THEN p
    ELSE [p EXCEPT !.cobj[p.current_chain].rules =
                      Append(@, [rule[1] EXCEPT !.sets_referenced =
                                    set_refs(re_findall(re_set_ref, original_line, 1))]),
                   !.rules =
                      Append(@, [rule[1] EXCEPT !.sets_referenced =
                                    set_refs(re_findall(re_set_ref, original_line, 1))])]

\* The branches of the loop body for a line that is neither blank nor a
\* comment (rule_parser.py:204-328); p has the brace depth updated.
on_line(p, line, original_line) ==
    IF Len(re_match(re_table, line)) > 0 THEN on_table(p, re_match(re_table, line))
    ELSE IF Len(re_match(re_block(W.set), line)) > 0 /\ p.current_table # 0 /\ ~p.in_set_block
    THEN on_set(p, re_match(re_block(W.set), line))
    ELSE IF p.in_set_block /\ Len(p.current_set) > 0 THEN set_line(p, line)
    ELSE IF Len(re_match(re_block(W.chain), line)) > 0 /\ p.current_table # 0
    THEN on_chain(p, re_match(re_block(W.chain), line))
    ELSE IF p.current_chain # 0 /\ startswith(line, W.type)
    THEN on_chain_type(p, re_match(re_chain_type, line))
    ELSE IF line = <<"}">> THEN on_close(p)
    ELSE IF p.current_chain # 0 /\ p.current_table # 0
    THEN on_rule(p, _parse_text_rule(original_line, p.tobj[p.current_table].name,
                                     p.cobj[p.current_chain].name,
                                     p.tobj[p.current_table].family, p.line_number),
                 original_line)
    ELSE p

\* The loop body with the line counted after the skip of blank and comment
\* lines.
text_line_counting_parsed(p, original_line) ==
    IF Len(strip(original_line)) = 0 \/ startswith(strip(original_line), <<"#">>)
    THEN p
    ELSE on_line([p EXCEPT !.line_number = @ + 1,
                           !.brace_depth = @ + count(strip(original_line), "{")
                                             - count(strip(original_line), "}")],
                 strip(original_line), original_line)

\* One pass of the loop of parse_text_hierarchical (rule_parser.py:195-328).
text_line(p, original_line) ==
    IF Len(strip(original_line)) = 0 \/ startswith(strip(original_line), <<"#">>)
    THEN [p EXCEPT !.line_number = @ + 1]
    ELSE on_line([p EXCEPT !.line_number = @ + 1,
                           !.brace_depth = @ + count(strip(original_line), "{")
                                             - count(strip(original_line), "}")],
                 strip(original_line), original_line)

RECURSIVE text_lines(_, _)
\* `for line in lines:` from the parser state p on.  (The test of
\* p.line_number, which is never negative, makes TLC evaluate p before the
\* next pass instead of nesting the passes.)
text_lines(p, lines) ==
    IF Len(lines) = 0 \/ p.line_number < 0 THEN p
    ELSE text_lines(text_line(p, lines[1]), Tail(lines))

\* The Table object t with its Chain objects in place of their references.
table_value(p, t) ==
    [p.tobj[t] EXCEPT !.chains = [i \in 1..Len(@) |-> <<@[i][1], p.cobj[@[i][2]]>>]]

\* The ParseResult that the parser state p stands for.
result_of(p) ==
    ParseResult([i \in 1..Len(p.tables) |-> <<p.tables[i][1], table_value(p, p.tables[i][2])>>],
                p.rules)

\* RuleParser.parse_text_hierarchical(text)
parse_text_hierarchical(text) == result_of(text_lines(ParserStart, Split(text, "\n")))

\* RuleParser.parse_text(text)
parse_text(text) == get_all_rules(parse_text_hierarchical(text))

-----------------------------------------------------------------------------
(* The texts given to the text parser: lists of lines joined by "\n".      *)

RECURSIVE Join(_)
Join(lines) ==
    IF Len(lines) = 0 THEN <<>>
    ELSE IF Len(lines) = 1 THEN lines[1]
    ELSE lines[1] \o <<"\n">> \o Join(Tail(lines))

\* Lines of a chain body: rule lines, lines that give no rule, a blank line
\* and a comment.
BodyLines ==
    {<<" ", " ", " ", " ", "t", "c", "p", " ", "d", "p", "o", "r", "t", " ", "8", "0", " ", "a", "c", "c", "e", "p", "t">>, <<" ", " ", " ", " ", "i", "p", " ", "s", "a", "d", "d", "r", " ", "1", "0", ".", "0", ".", "0", ".", "0", "/", "8", " ", "d", "r", "o", "p">>, <<" ", " ", " ", " ", "d", "r", "o", "p">>,
     <<" ", " ", " ", " ", "u", "d", "p", " ", "s", "p", "o", "r", "t", " ", "5", "3", " ", "c", "o", "u", "n", "t", "e", "r">>, <<" ", " ", " ", " ", "t", "c", "p", " ", "d", "p", "o", "r", "t", " ", "2", "2", " ", "l", "o", "g">>, <<" ", " ", " ", " ", "i", "i", "f", " ", "l", "o", " ", "j", "u", "m", "p", " ", "o", "t", "h", "e", "r">>,
     <<" ", " ", " ", " ", "i", "p", " ", "d", "a", "d", "d", "r", " ", "@", "w", "e", "b", " ", "t", "c", "p", " ", "d", "p", "o", "r", "t", " ", "1", "0", "2", "4", "-", "2", "0", "4", "8", " ", "c", "o", "u", "n", "t", "e", "r", " ", "r", "e", "j", "e", "c", "t">>, <<" ", " ", " ", " ", "m", "e", "t", "a", " ", "m", "a", "r", "k", " ", "1", " ", "r", "e", "t", "u", "r", "n">>,
     <<" ", " ", " ", " ", "l", "o", "g", " ", "p", "r", "e", "f", "i", "x", " ", "x">>, <<>>, <<" ", " ", " ", " ", "#", " ", "n", "o", "t", "e">>}

\* The largest number of lines in the body of the chain of ChainTexts.
MaxLines == 2

TableBlock(family, name, body) ==
    <<<<"t", "a", "b", "l", "e", " ">> \o family \o <<" ">> \o name \o <<" ", "{">>>> \o body \o <<<<"}">>>>

ChainBlock(name, body) == <<<<" ", " ", "c", "h", "a", "i", "n", " ">> \o name \o <<" ", "{">>>> \o body \o <<<<" ", " ", "}">>>>

SetBlock(name, elements) ==
    <<<<" ", " ", "s", "e", "t", " ">> \o name \o <<" ", "{">>, <<" ", " ", " ", " ", "t", "y", "p", "e", " ", "i", "p", "v", "4", "_", "a", "d", "d", "r">>, <<" ", " ", " ", " ", "f", "l", "a", "g", "s", " ", "i", "n", "t", "e", "r", "v", "a", "l", ",", " ", "t", "i", "m", "e", "o", "u", "t">>,
      <<" ", " ", " ", " ", "e", "l", "e", "m", "e", "n", "t", "s", " ", "=", " ", "{", " ">> \o elements \o <<" ", "}">>, <<" ", " ", "}">>>>

\* One table with one chain: a type line, then up to MaxLines body lines.
ChainTexts ==
    {TableBlock(<<"i", "n", "e", "t">>, <<"f", "i", "l", "t", "e", "r">>,
                ChainBlock(<<"i", "n", "p", "u", "t">>, <<<<" ", " ", " ", " ", "t", "y", "p", "e", " ", "f", "i", "l", "t", "e", "r", " ", "h", "o", "o", "k", " ", "i", "n", "p", "u", "t", " ", "p", "r", "i", "o", "r", "i", "t", "y", " ", "0", ";", " ", "p", "o", "l", "i", "c", "y", " ", "d", "r", "o", "p", ";">>>> \o body))
        : body \in UNION {[1..n -> BodyLines] : n \in 0..MaxLines}}

\* Rule lines outside a chain: alone, after a chain line that has no table,
\* between the chains of a table and after the end of a table.
LooseTexts ==
    {<<<<"t", "c", "p", " ", "d", "p", "o", "r", "t", " ", "8", "0", " ", "a", "c", "c", "e", "p", "t">>>>, <<<<"d", "r", "o", "p">>>>,
     <<<<"c", "h", "a", "i", "n", " ", "i", "n", "p", "u", "t", " ", "{">>, <<" ", " ", " ", " ", "t", "c", "p", " ", "d", "p", "o", "r", "t", " ", "8", "0", " ", "a", "c", "c", "e", "p", "t">>, <<" ", " ", " ", " ", "i", "p", " ", "s", "a", "d", "d", "r", " ", "1", "0", ".", "0", ".", "0", ".", "1", " ", "d", "r", "o", "p">>, <<"}">>>>,
     <<<<"c", "h", "a", "i", "n", " ", "i", "n", "p", "u", "t">>, <<"t", "c", "p", " ", "d", "p", "o", "r", "t", " ", "8", "0", " ", "a", "c", "c", "e", "p", "t">>, <<"c", "h", "a", "i", "n", " ", "o", "u", "t", "p", "u", "t">>, <<"t", "c", "p", " ", "s", "p", "o", "r", "t", " ", "8", "0", " ", "a", "c", "c", "e", "p", "t">>>>,
     <<<<"t", "a", "b", "l", "e", " ", "i", "p", " ", "f", "i", "l", "t", "e", "r">>, <<"c", "h", "a", "i", "n", " ", "i", "n", "p", "u", "t">>, <<"t", "c", "p", " ", "d", "p", "o", "r", "t", " ", "8", "0", " ", "a", "c", "c", "e", "p", "t">>, <<"t", "c", "p", " ", "d", "p", "o", "r", "t", " ", "4", "4", "3", " ", "a", "c", "c", "e", "p", "t">>>>}
    \cup {TableBlock(<<"i", "n", "e", "t">>, <<"f", "i", "l", "t", "e", "r">>,
                     before \o ChainBlock(<<"i", "n", "p", "u", "t">>, <<<<" ", " ", " ", " ", "t", "c", "p", " ", "d", "p", "o", "r", "t", " ", "2", "2", " ", "a", "c", "c", "e", "p", "t">>>>)
                     \o <<<<" ", " ", "u", "d", "p", " ", "d", "p", "o", "r", "t", " ", "5", "3", " ", "a", "c", "c", "e", "p", "t">>>>
                     \o ChainBlock(<<"o", "u", "t", "p", "u", "t">>, <<<<" ", " ", " ", " ", "i", "p", " ", "d", "a", "d", "d", "r", " ", "1", "0", ".", "0", ".", "0", ".", "1", " ", "d", "r", "o", "p">>>>))
            \o after
            : before \in {<<>>, <<<<" ", " ", "t", "c", "p", " ", "d", "p", "o", "r", "t", " ", "8", "0", " ", "a", "c", "c", "e", "p", "t">>>>},
              after \in {<<>>, <<<<"t", "c", "p", " ", "d", "p", "o", "r", "t", " ", "4", "4", "3", " ", "a", "c", "c", "e", "p", "t">>>>}}

\* Two table blocks, the second with the family and name of the first or
\* with others, each with a set and a chain.
TableTexts ==
    {TableBlock(<<"i", "n", "e", "t">>, <<"f", "i", "l", "t", "e", "r">>,
                SetBlock(<<"w", "e", "b">>, <<"1", "0", ".", "0", ".", "0", ".", "1", ",", " ", "1", "0", ".", "0", ".", "0", ".", "2">>) \o ChainBlock(<<"i", "n", "p", "u", "t">>, <<first>>))
     \o TableBlock(t[1], t[2], SetBlock(s, <<"\"", "1", "0", ".", "0", ".", "0", ".", "3", "\"">>) \o ChainBlock(c, <<second>>))
        : t \in {<<<<"i", "n", "e", "t">>, <<"f", "i", "l", "t", "e", "r">>>>, <<<<"i", "p">>, <<"f", "i", "l", "t", "e", "r">>>>, <<<<"i", "n", "e", "t">>, <<"n", "a", "t">>>>},
          s \in {<<"w", "e", "b">>, <<"d", "n", "s">>}, c \in {<<"i", "n", "p", "u", "t">>, <<"o", "u", "t", "p", "u", "t">>},
          first \in {<<" ", " ", " ", " ", "t", "c", "p", " ", "d", "p", "o", "r", "t", " ", "8", "0", " ", "a", "c", "c", "e", "p", "t">>, <<" ", " ", " ", " ", "i", "p", " ", "s", "a", "d", "d", "r", " ", "@", "w", "e", "b", " ", "d", "r", "o", "p">>},
          second \in {<<" ", " ", " ", " ", "u", "d", "p", " ", "d", "p", "o", "r", "t", " ", "5", "3", " ", "a", "c", "c", "e", "p", "t">>, <<" ", " ", " ", " ", "d", "r", "o", "p">>}}

\* One table in which a chain is declared again after another chain.
AgainTexts ==
    {TableBlock(<<"i", "n", "e", "t">>, <<"f", "i", "l", "t", "e", "r">>,
                ChainBlock(<<"i", "n", "p", "u", "t">>, <<a>>) \o sep \o ChainBlock(c, <<<<" ", " ", " ", " ", "u", "d", "p", " ", "d", "p", "o", "r", "t", " ", "5", "3", " ", "a", "c", "c", "e", "p", "t">>>>)
                \o ChainBlock(<<"i", "n", "p", "u", "t">>, <<<<" ", " ", " ", " ", "t", "c", "p", " ", "d", "p", "o", "r", "t", " ", "4", "4", "3", " ", "a", "c", "c", "e", "p", "t">>, <<" ", " ", " ", " ", "i", "p", " ", "s", "a", "d", "d", "r", " ", "1", "0", ".", "0", ".", "0", ".", "1", " ", "d", "r", "o", "p">>>>))
        : a \in {<<" ", " ", " ", " ", "t", "c", "p", " ", "d", "p", "o", "r", "t", " ", "8", "0", " ", "a", "c", "c", "e", "p", "t">>, <<" ", " ", " ", " ", "d", "r", "o", "p">>}, sep \in {<<>>, <<<<>>, <<"#", " ", "n", "e", "x", "t">>>>},
          c \in {<<"o", "u", "t", "p", "u", "t">>, <<"i", "n", "p", "u", "t">>}}

Texts == {Join(t) : t \in ChainTexts \cup LooseTexts \cup TableTexts \cup AgainTexts}

InitText ==
    /\ call \in [fn : {"parse_text", "parse_text_hierarchical"}, text : Texts]
    /\ ret = Pending
    /\ rules = <<>>
    /\ query = NoQuery
    /\ result = Pending
    /\ redundant = Pending

\* RuleParser.parse_text(text)
ParseText ==
    /\ call.fn = "parse_text" /\ ret.exc = "pending"
    /\ ret' = Ret(parse_text(call.text))
    /\ UNCHANGED <<call, rules, query, result, redundant>>

\* RuleParser.parse_text_hierarchical(text)
ParseTextHierarchical ==
    /\ call.fn = "parse_text_hierarchical" /\ ret.exc = "pending"
    /\ ret' = Ret(parse_text_hierarchical(call.text))
    /\ UNCHANGED <<call, rules, query, result, redundant>>

NextText == ParseText \/ ParseTextHierarchical

SpecText == InitText /\ [][NextText]_vars

-----------------------------------------------------------------------------
(* Properties of the text parser.                                          *)

\* The lines of a text, stripped.
StrippedLines(text) == [i \in 1..Len(Split(text, "\n")) |-> strip(Split(text, "\n")[i])]

\* The words of a line: its pieces between blanks.
Words(line) == SelectSeq(Split(line, " "), LAMBDA w : Len(w) > 0)

\* The stripped lines of a text whose first word is the given one.
LinesOf(text, word) ==
    SelectSeq(StrippedLines(text), LAMBDA l : Len(Words(l)) > 0 /\ Words(l)[1] = word)

\* C14: parse_text returns a Rule for a rule line that no table and chain
\* declaration encloses: the single line 'tcp dport 80 accept' gives one
\* rule (accept, dport 80, tcp), and the rule lines after a 'chain <name>'
\* line without a table declaration give rules of that chain.
C14_RulesWithoutBlocks ==
    Returned("parse_text") =>
        /\ call.text = <<"t", "c", "p", " ", "d", "p", "o", "r", "t", " ", "8", "0", " ", "a", "c", "c", "e", "p", "t">> =>
            /\ Len(ret.value) = 1
            /\ ret.value[1].action = "accept"
            /\ ret.value[1].dport = <<"8", "0">>
            /\ ret.value[1].protocol = W.tcp
        /\ call.text = Join(<<<<"c", "h", "a", "i", "n", " ", "i", "n", "p", "u", "t">>, <<"t", "c", "p", " ", "d", "p", "o", "r", "t", " ", "8", "0", " ", "a", "c", "c", "e", "p", "t">>,
                              <<"c", "h", "a", "i", "n", " ", "o", "u", "t", "p", "u", "t">>, <<"t", "c", "p", " ", "s", "p", "o", "r", "t", " ", "8", "0", " ", "a", "c", "c", "e", "p", "t">>>>) =>
            /\ Len(ret.value) = 2
            /\ ret.value[1].chain = <<"i", "n", "p", "u", "t">> /\ ret.value[1].dport = <<"8", "0">>
            /\ ret.value[2].chain = <<"o", "u", "t", "p", "u", "t">> /\ ret.value[2].sport = <<"8", "0">>

\* C15: for a text of two table blocks with one family and name,
\* parse_text_hierarchical gives one Table that holds every chain and every
\* set declared in either block, and get_all_rules() returns the rules of
\* both blocks.
C15_TableUnion ==
    (/\ Returned("parse_text_hierarchical")
     /\ Len(LinesOf(call.text, W.table)) = 2
     /\ LinesOf(call.text, W.table)[1] = LinesOf(call.text, W.table)[2]) =>
        /\ Len(ret.value.tables) = 1
        /\ \A i \in 1..Len(LinesOf(call.text, W.chain)) :
            HasItem(ret.value.tables[1][2].chains, Words(LinesOf(call.text, W.chain)[i])[2])
        /\ \A i \in 1..Len(LinesOf(call.text, W.set)) :
            HasItem(ret.value.tables[1][2].sets, Words(LinesOf(call.text, W.set)[i])[2])
        /\ \A i \in 1..Len(ret.value.rules) :
            \E j \in 1..Len(get_all_rules(ret.value)) :
                get_all_rules(ret.value)[j] = ret.value.rules[i]

\* The action keywords in their priority order.
ActionWords == <<<<"a", "c", "c", "e", "p", "t">>, <<"d", "r", "o", "p">>, <<"r", "e", "j", "e", "c", "t">>, <<"j", "u", "m", "p">>, <<"r", "e", "t", "u", "r", "n">>, <<"c", "o", "u", "n", "t", "e", "r">>, <<"l", "o", "g">>>>

ActionNames == <<"accept", "drop", "reject", "jump", "return", "counter", "log">>

\* The positions in ActionWords of the keywords that are words of a line.
KeywordsOf(line) == {k \in 1..Len(ActionWords) : \E i \in 1..Len(Words(line)) : Words(line)[i] = ActionWords[k]}

\* The first action keyword of a line in the priority order.
FirstKeyword(line) == ActionNames[CHOOSE k \in KeywordsOf(line) : \A j \in KeywordsOf(line) : k <= j]

\* A text of one table and one chain: the two declarations, the type line of
\* the chain, the lines of the chain and the two closing braces.
OneChain(text) ==
    /\ Len(StrippedLines(text)) >= 5
    /\ Len(LinesOf(text, W.table)) = 1 /\ StrippedLines(text)[1] = LinesOf(text, W.table)[1]
    /\ Len(LinesOf(text, W.chain)) = 1 /\ StrippedLines(text)[2] = LinesOf(text, W.chain)[1]
    /\ startswith(StrippedLines(text)[3], W.type_)
    /\ StrippedLines(text)[Len(StrippedLines(text)) - 1] = <<"}">>
    /\ StrippedLines(text)[Len(StrippedLines(text))] = <<"}">>

\* The line numbers of the lines between the type line and the closing
\* braces of such a text.
BodyNumbers(text) == 4..(Len(StrippedLines(text)) - 2)

\* C17: a line of an open chain on which an action keyword occurs gives a
\* Rule whose action is the first keyword of the priority order accept,
\* drop, reject, jump, return, counter, log that occurs on it, also when the
\* line holds nothing but the keyword.
C17_ActionKeyword ==
    (Returned("parse_text_hierarchical") /\ OneChain(call.text)) =>
        \A n \in BodyNumbers(call.text) :
            KeywordsOf(StrippedLines(call.text)[n]) # {} =>
                \E i \in 1..Len(ret.value.rules) :
                    /\ ret.value.rules[i].line_number = n
                    /\ ret.value.rules[i].action = FirstKeyword(StrippedLines(call.text)[n])

-----------------------------------------------------------------------------
(* Both formats together.                                                  *)

InitParse == InitJson \/ InitText

NextParse == NextJson \/ NextText

SpecParse == InitParse /\ [][NextParse]_vars

\* The line numbers of a rule list increase strictly.
Ascending(rs) == \A i \in 1..(Len(rs) - 1) : rs[i].line_number < rs[i + 1].line_number

\* C16: within one parse the line numbers of the rules are distinct and
\* increase strictly in the order in which the rules are produced: for text
\* the line number is the 1-based number of the rule's physical line, blank
\* and comment lines counted; for JSON it is 1, 2, 3, ... over the objects
\* that gave a rule; get_all_rules() returns rules in strictly ascending
\* line number order.
C16_LineNumbers ==
    /\ Returned("parse_text_hierarchical") =>
        /\ Ascending(ret.value.rules)
        /\ \A i \in 1..Len(ret.value.rules) :
            /\ ret.value.rules[i].line_number \in 1..Len(StrippedLines(call.text))
            /\ StrippedLines(call.text)[ret.value.rules[i].line_number] = ret.value.rules[i].raw
        /\ Ascending(get_all_rules(ret.value))
    /\ Returned("parse_text") => Ascending(ret.value)
    /\ (Returned("parse_json_hierarchical") /\ ret.exc = "none") =>
        /\ \A i \in 1..Len(ret.value.rules) : ret.value.rules[i].line_number = i
        /\ Ascending(get_all_rules(ret.value))
    /\ (Returned("parse_json") /\ ret.exc = "none") => Ascending(ret.value)

\* C16 witness: a text with a blank line and a comment line before its last
\* rule was parsed into several rules, several of them in get_all_rules().
C16_Witness ==
    /\ Returned("parse_text_hierarchical")
    /\ Len(ret.value.rules) >= 3
    /\ Len(get_all_rules(ret.value)) >= 2
    /\ \E i, j \in 1..(ret.value.rules[Len(ret.value.rules)].line_number - 1) :
        /\ StrippedLines(call.text)[i] = <<>>
        /\ startswith(StrippedLines(call.text)[j], <<"#">>)

-----------------------------------------------------------------------------
(* Conflict detection, stated over the state left by Evaluate.             *)

\* The indices at which two adjacent matched rules differ in action.
ConflictIndices == {k \in 1..Len(rules) : AdjacentConflict(k)}

\* C25: the conflicts of an EvaluationResult are exactly one
\* Conflict(rule_k, rule_k+1) for each index k at which two adjacent matched
\* rules differ in action, in index order; there is none when fewer than
\* two rules matched, and rules that are not adjacent are never paired.
C25_AdjacentConflicts ==
    Evaluated =>
        /\ Len(result.value.conflicts) = Cardinality(ConflictIndices)
        /\ \A n \in 1..Len(result.value.conflicts) :
            \E k \in ConflictIndices :
                /\ Cardinality({j \in ConflictIndices : j <= k}) = n
                /\ result.value.conflicts[n].rule1 = result.value.matched_rules[k]
                /\ result.value.conflicts[n].rule2 = result.value.matched_rules[k + 1]
        /\ Len(result.value.matched_rules) < 2 => result.value.conflicts = <<>>

\* C25 witness: three rules matched, the first and the third differ in
\* action, and the only conflict pairs the second with the third.
C25_Witness ==
    /\ Evaluated
    /\ Len(result.value.matched_rules) = 3
    /\ result.value.matched_rules[1].action = result.value.matched_rules[2].action
    /\ result.value.matched_rules[1].action # result.value.matched_rules[3].action
    /\ Len(result.value.conflicts) = 1
    /\ result.value.conflicts[1].rule1 = result.value.matched_rules[2]

\* Rule i is the first matching rule of the selected chain that is neither
\* jump nor return, and its action is counter or log.
CountingStop(i) ==
    /\ Matching(i)
    /\ rules[i].action \in {"counter", "log"}
    /\ \A j \in 1..(i - 1) : Matching(j) => rules[j].action \in {"jump", "return"}

\* C27: a matching counter or log rule ends the scan like a terminal rule:
\* it is the last matched rule, no later rule of the chain is added to
\* matched_rules, and evaluate returns NO_MATCH with the explanation
\* 'Matched jump/return rules only'.
C27_CounterLogEndsScan ==
    Evaluated =>
        \A i \in 1..Len(rules) :
            CountingStop(i) =>
                /\ result.value.matched_rules # <<>>
                /\ result.value.matched_rules[Len(result.value.matched_rules)] = rules[i]
                /\ \A k \in 1..Len(result.value.matched_rules) :
                      result.value.matched_rules[k].line_number <= i
                /\ result.value.verdict = "NO_MATCH"
                /\ result.value.explanation = <<"Matched jump/return rules only">>

\* C27 witness: a log rule matched first and ended the scan before a later
\* accept rule that matches the query as well.
C27_Witness ==
    /\ Evaluated
    /\ \E i \in 1..Len(rules) :
        /\ CountingStop(i)
        /\ rules[i].action = "log"
        /\ \E j \in (i + 1)..Len(rules) : Matching(j) /\ rules[j].action = "accept"
    /\ Len(result.value.matched_rules) = 1
    /\ result.value.verdict = "NO_MATCH"

-----------------------------------------------------------------------------
(* Set references: rules whose match fields name a set, evaluated against  *)
(* queries with and without the candidate, and the matchers called on a    *)
(* set reference directly.                                                 *)

\* '@name' rule values: plain, with the '-' and '/' the matchers split on,
\* and with a name that reads as an address or a port.
SetRefs == {T.setref, <<"@", "w", "e", "b", "-", "s", "e", "r", "v", "e", "r", "s">>, <<"@", "a", "-", "b", "-", "c">>, <<"@", "n", "e", "t", "s", "/", "2", "4">>, <<"@", "1", "0", ".", "0", ".", "0", ".", "1">>, <<"@", "8", "0">>}

IsSetRef(v) == v # None /\ Len(v) > 0 /\ v[1] = "@"

\* Rules with a set reference as source, destination, sport or dport, and
\* an unrestricted rule.
SetRefRules ==
    {Rule("accept", T.input, s, None, None, None, None, 0)
        : s \in {T.setref, <<"@", "1", "0", ".", "0", ".", "0", ".", "1">>, <<"@", "n", "e", "t", "s", "/", "2", "4">>}}
    \cup {Rule("drop", T.input, None, None, None, s, None, 0)
        : s \in {T.setref, <<"@", "8", "0">>, <<"@", "w", "e", "b", "-", "s", "e", "r", "v", "e", "r", "s">>}}
    \cup {Rule("accept", T.input, None, T.setref, None, None, None, 0),
          Rule("drop", T.input, None, None, <<"@", "a", "-", "b", "-", "c">>, None, None, 0),
          Rule("reject", T.input, None, None, None, None, None, 0)}

\* The number of rules in a rule list of SpecSetRef.
MaxSetRules == 2

SetRefQueries ==
    {Query(T.host10_1, T.host10, <<1024>>, <<80>>, T.tcp, "in"),
     Query(None, None, NoInt, NoInt, None, "in")}

SetRefCalls ==
    [fn : {"ip_matches"}, cand : {None, T.host10_1, T.setref, <<"1", "0", ".", "0", ".", "0", ".", "1">>}, rv : SetRefs]
    \cup [fn : {"port_matches"}, cand : {NoInt, <<80>>}, rv : SetRefs]

InitSetRef ==
    /\ rules \in RuleLists(SetRefRules, MaxSetRules)
    /\ call \in SetRefCalls
    /\ query = NoQuery
    /\ result = Pending
    /\ redundant = Pending
    /\ ret = Pending

NextSetRef == Evaluate(SetRefQueries) \/ IpMatches \/ PortMatches

SpecSetRef == InitSetRef /\ [][NextSetRef]_vars

\* Some match field of the rule is a set reference.
NamesSet(rule) ==
    \E v \in {rule.source, rule.destination, rule.sport, rule.dport} : IsSetRef(v)

\* C28: a set reference never matches: ip_matches and port_matches return
\* false for a rule value '@name' whatever the candidate, present or absent,
\* and evaluate never places a rule with a set reference in source,
\* destination, sport or dport in matched_rules.
C28_SetRefNeverMatches ==
    /\ (Returned("ip_matches") \/ Returned("port_matches")) => ret = Ret(FALSE)
    /\ Evaluated =>
        \A k \in 1..Len(result.value.matched_rules) :
            ~NamesSet(result.value.matched_rules[k])

\* C28 witness: ip_matches returned for the candidate 10.0.0.1 and the rule
\* value '@10.0.0.1', and evaluate went past a rule with a set reference
\* as destination port to match the rule after it, for a query that has a
\* destination port.
C28_Witness ==
    /\ Returned("ip_matches")
    /\ call.cand = T.host10_1 /\ call.rv = <<"@", "1", "0", ".", "0", ".", "0", ".", "1">>
    /\ Evaluated
    /\ Len(rules) = 2 /\ IsSetRef(rules[1].dport)
    /\ query.dst_port # NoInt
    /\ result.value.matched_rules = <<rules[2]>>

-----------------------------------------------------------------------------
(* Shadowing against matching: the pair of rules of a _rule_shadows call,  *)
(* each matched against the same queries.                                  *)

ShadowQueries ==
    {Query(s, d, <<1024>>, <<80>>, p, "in") :
        <<s, d, p>> \in {None, T.host10, T.host2_10, T.host10_1, <<"2", "0", "0", "1", ":", "d", "b", "8", ":", ":", "1">>, <<"i", "n", "v", "a", "l", "i", "d">>}
                        \X {T.host10_1, T.host10} \X {T.tcp, T.udp}}
    \cup {Query(None, None, NoInt, NoInt, None, "in"),
          Query(T.host10, None, NoInt, <<80>>, <<"T", "C", "P">>, "in")}

\* _rule_matches_query(rule, q) returned true.
Matches(rule, q) ==
    /\ _rule_matches_query(rule, q).exc = "none"
    /\ _rule_matches_query(rule, q).value

\* C26: shadowing is sound with respect to matching: whenever
\* _rule_shadows(g, s) is true, every query that matches s under
\* _rule_matches_query matches g as well.
C26_ShadowSound ==
    (Returned("_rule_shadows") /\ ret = Ret(TRUE)) =>
        \A q \in ShadowQueries : Matches(call.specific, q) => Matches(call.general, q)

\* C26 witness: a rule with a network as source shadows a rule with another
\* source and more match fields, and some query matches both while another
\* query matches the general rule only.
C26_Witness ==
    /\ Returned("_rule_shadows") /\ ret = Ret(TRUE)
    /\ call.general.source \notin {None, call.specific.source}
    /\ call.general.dport # call.specific.dport
    /\ \E q \in ShadowQueries : Matches(call.specific, q) /\ Matches(call.general, q)
    /\ \E q \in ShadowQueries : ~Matches(call.specific, q) /\ Matches(call.general, q)

\* C29 (as claimed): after parse_text_hierarchical the flat list
\* result.rules and get_all_rules() hold the same rules in the same order,
\* also when a chain name or a table (family, name) is declared twice.
C29_ViewsAgree ==
    Returned("parse_text_hierarchical") => get_all_rules(ret.value) = ret.value.rules

-----------------------------------------------------------------------------
(* Lines without a recognised action: one table with one chain whose body  *)
(* is one or two lines, most of them without an action keyword that        *)
(* _parse_text_rule finds.                                                 *)

FallbackLines ==
    {<<" ", " ", " ", " ", "t", "c", "p", " ", "d", "p", "o", "r", "t", " ", "8", "0">>, <<" ", " ", " ", " ", "t", "c", "p", " ", "d", "p", "o", "r", "t", " ", "2", "2", " ", "l", "o", "g">>, <<" ", " ", " ", " ", "l", "o", "g", " ", "p", "r", "e", "f", "i", "x", " ", "x">>, <<" ", " ", " ", " ", "d", "r", "o", "p">>,
     <<" ", " ", " ", " ", "a", "c", "c", "e", "p", "t">>, <<" ", " ", " ", " ", "r", "e", "j", "e", "c", "t">>, <<" ", " ", " ", " ", "m", "e", "t", "a", " ", "m", "a", "r", "k", " ", "1">>, <<" ", " ", " ", " ", "i", "p", " ", "s", "a", "d", "d", "r", " ", "1", "0", ".", "0", ".", "0", ".", "1">>,
     <<" ", " ", " ", " ", "i", "c", "m", "p", " ", "t", "y", "p", "e", " ", "e", "c", "h", "o", "-", "r", "e", "q", "u", "e", "s", "t">>, <<" ", " ", " ", " ", "i", "i", "f", " ", "l", "o">>, <<" ", " ", " ", " ", "o", "i", "f", " ", "e", "t", "h", "0">>, <<" ", " ", " ", " ", "c", "t", " ", "s", "t", "a", "t", "e", " ", "e", "s", "t", "a", "b", "l", "i", "s", "h", "e", "d">>,
     <<" ", " ", " ", " ", "u", "d", "p", " ", "d", "p", "o", "r", "t", " ", "5", "3">>, <<" ", " ", " ", " ", "d", "e", "s", "c", "r", "i", "p", "t", "i", "o", "n">>, <<" ", " ", " ", " ", "t", "c", "p", " ", "d", "p", "o", "r", "t", " ", "8", "0", " ", "a", "c", "c", "e", "p", "t">>, <<" ", " ", " ", " ", "m", "e", "t", "a", " ", "m", "a", "r", "k", " ", "1", " ", "l", "o", "g", " ">>}

FallbackTexts ==
    {Join(TableBlock(T.inet, T.filter,
                     ChainBlock(T.input, <<<<" ", " ", " ", " ", "t", "y", "p", "e", " ", "f", "i", "l", "t", "e", "r", " ", "h", "o", "o", "k", " ", "i", "n", "p", "u", "t", " ", "p", "r", "i", "o", "r", "i", "t", "y", " ", "0", ";">>>> \o body)))
        : body \in UNION {[1..n -> FallbackLines] : n \in 1..2}}

InitFallback ==
    /\ call \in [fn : {"parse_text", "parse_text_hierarchical"}, text : FallbackTexts]
    /\ ret = Pending
    /\ rules = <<>>
    /\ query = NoQuery
    /\ result = Pending
    /\ redundant = Pending

SpecFallback == InitFallback /\ [][NextText]_vars

\* The texts _parse_text_rule looks for to find the action.
ActionMarks == {<<" ", "a", "c", "c", "e", "p", "t">>, <<" ", "d", "r", "o", "p">>, <<" ", "r", "e", "j", "e", "c", "t">>, <<" ", "j", "u", "m", "p", " ">>, <<" ", "r", "e", "t", "u", "r", "n">>, <<" ", "c", "o", "u", "n", "t", "e", "r", " ">>, <<" ", "l", "o", "g", " ">>}

\* Some action is recognised on the stripped line.
Recognised(line) ==
    \/ \E mark \in ActionMarks : Contains(line, mark)
    \/ (Len(line) >= 7 /\ SubSeq(line, Len(line) - 6, Len(line)) = <<"c", "o", "u", "n", "t", "e", "r">>)

\* The stripped line contains tcp, udp, icmp, ip, iif, oif or ct.
HasMatchWord(line) ==
    \E kw \in {<<"t", "c", "p">>, <<"u", "d", "p">>, <<"i", "c", "m", "p">>, <<"i", "p">>, <<"i", "i", "f">>, <<"o", "i", "f">>, <<"c", "t">>} : Contains(line, kw)

\* The rules a call returned: the flat list of parse_text_hierarchical or
\* the list of parse_text.
ReturnedRules == IF call.fn = "parse_text" THEN ret.value ELSE ret.value.rules

\* The returned rules of line n.
RulesAt(n) == SelectSeq(ReturnedRules, LAMBDA r : r.line_number = n)

\* C30: a line of an open chain on which no action is recognised gives no
\* rule only when it contains none of tcp, udp, icmp, ip, iif, oif, ct;
\* when it contains one of them it gives one Rule with action accept.
C30_DefaultAccept ==
    ((Returned("parse_text_hierarchical") \/ Returned("parse_text")) /\ OneChain(call.text)) =>
        \A n \in BodyNumbers(call.text) :
            ~Recognised(StrippedLines(call.text)[n]) =>
                IF HasMatchWord(StrippedLines(call.text)[n])
                THEN Len(RulesAt(n)) = 1 /\ RulesAt(n)[1].action = "accept"
                ELSE RulesAt(n) = <<>>

\* C30 witness: of the two lines 'tcp dport 22 log' and 'log prefix x',
\* neither with a recognised action, the first gave a rule with action
\* accept and the second gave none.
C30_Witness ==
    /\ Returned("parse_text_hierarchical")
    /\ StrippedLines(call.text)[4] = <<"t", "c", "p", " ", "d", "p", "o", "r", "t", " ", "2", "2", " ", "l", "o", "g">>
    /\ StrippedLines(call.text)[5] = <<"l", "o", "g", " ", "p", "r", "e", "f", "i", "x", " ", "x">>
    /\ Len(ret.value.rules) = 1
    /\ ret.value.rules[1].action = "accept"
    /\ ret.value.rules[1].line_number = 4

-----------------------------------------------------------------------------
(* Scope tracking of the text parser, against the block structure of the   *)
(* text read off its braces with a stack.                                  *)

\* The stripped line opens a table, chain or set block.
Opens(line) ==
    /\ Len(Words(line)) > 0 /\ Words(line)[1] \in {W.table, W.chain, W.set}
    /\ line[Len(line)] = "{"

RECURSIVE OpenBlocks(_, _)
\* The line numbers of the declarations of the blocks that are open after
\* the first n lines, outermost first.
OpenBlocks(ls, n) ==
    IF n = 0 THEN <<>>
    ELSE LET open == OpenBlocks(ls, n - 1)
         IN  IF Opens(ls[n]) THEN Append(open, n)
             ELSE IF ls[n] = <<"}">> /\ Len(open) > 0 THEN SubSeq(open, 1, Len(open) - 1)
             ELSE open

\* Every table, chain and set declaration opens a block on its own line,
\* tables at the top and chains and sets inside a table, every other brace
\* is closed on its line, and every block is closed by a bare '}'.
WellNested(ls) ==
    /\ \A n \in 1..Len(ls) :
        /\ (Len(Words(ls[n])) > 0 /\ Words(ls[n])[1] \in {W.table, W.chain, W.set})
           => /\ Opens(ls[n]) /\ count(ls[n], "{") = 1 /\ count(ls[n], "}") = 0
              /\ Len(OpenBlocks(ls, n - 1)) = (IF Words(ls[n])[1] = W.table THEN 0 ELSE 1)
        /\ ls[n] = <<"}">> => Len(OpenBlocks(ls, n - 1)) > 0
        /\ (~Opens(ls[n]) /\ ls[n] # <<"}">>) => count(ls[n], "{") = count(ls[n], "}")
    /\ OpenBlocks(ls, Len(ls)) = <<>>

\* Line n lies inside the braces of a chain inside the braces of a table.
InChainBlock(ls, n) ==
    /\ Len(OpenBlocks(ls, n - 1)) = 2
    /\ Words(ls[OpenBlocks(ls, n - 1)[2]])[1] = W.chain

\* Line n is a rule line: neither blank, comment, declaration, type line nor
\* closing brace, and with an action or a match word on it.
RuleLine(ls, n) ==
    /\ Len(ls[n]) > 0 /\ ls[n][1] # "#" /\ ls[n] # <<"}">>
    /\ ~Opens(ls[n]) /\ ~startswith(ls[n], W.type)
    /\ (Recognised(ls[n]) \/ HasMatchWord(ls[n]))

\* The line numbers of a list of rules.
LineNumbers(rs) == [i \in 1..Len(rs) |-> rs[i].line_number]

\* The rule lines of ls inside the chain block declared at line d, in
\* source order.
RuleLinesOf(ls, d) ==
    SelectSeq([n \in 1..Len(ls) |-> n],
              LAMBDA n : RuleLine(ls, n) /\ InChainBlock(ls, n) /\ OpenBlocks(ls, n - 1)[2] = d)

\* The parser state at the end of the loop of parse_text_hierarchical.
ParserEnd(text) == text_lines(ParserStart, Split(text, "\n"))

\* The scope tracking on the lines ls that left the parser state p and the
\* flat rule list flat.
ScopesTracked(ls, p, flat) ==
    /\ p.current_chain = 0 /\ p.current_table = 0
    /\ Len(p.cobj) = Cardinality({d \in 1..Len(ls) : Opens(ls[d]) /\ Words(ls[d])[1] = W.chain})
    /\ \A c \in 1..Len(p.cobj) :
        /\ Opens(ls[p.cobj[c].line_number])
        /\ p.cobj[c].name = SubSeq(Words(ls[p.cobj[c].line_number]), 2, 2)[1]
        /\ LineNumbers(p.cobj[c].rules) = RuleLinesOf(ls, p.cobj[c].line_number)
        /\ \A k \in 1..Len(p.cobj[c].rules) :
            /\ p.cobj[c].rules[k].chain = p.cobj[c].name
            /\ <<p.cobj[c].rules[k].family, p.cobj[c].rules[k].table>>
                 = SubSeq(Words(ls[OpenBlocks(ls, p.cobj[c].line_number - 1)[1]]), 2, 3)
    /\ LineNumbers(flat)
         = SelectSeq([n \in 1..Len(ls) |-> n], LAMBDA n : RuleLine(ls, n) /\ InChainBlock(ls, n))

-----------------------------------------------------------------------------
(* interpreter/query_interpreter.py: QueryInterpreter.parse(text).         *)

\* rf"{keyword}\s+([\d\.\/]+)"
re_keyword_ip(keyword) ==
    Cat(<<Lit(keyword), Plus(Chr(Space)), Grp(1, Plus(Chr(Digits \cup {".", "/"})))>>)

\* rf"{keyword}\s+(\d+)"
re_keyword_port(keyword) == Cat(<<Lit(keyword), Plus(Chr(Space)), Grp(1, Plus(Chr(Digits)))>>)

RECURSIVE _extract_ip(_, _)
\* QueryInterpreter._extract_ip(text, keywords)
_extract_ip(text, keywords) ==
    IF Len(keywords) = 0 THEN None
    ELSE IF Len(re_search(re_keyword_ip(keywords[1]), text, 1)) > 0
    THEN group(re_search(re_keyword_ip(keywords[1]), text, 1), 1)
    ELSE _extract_ip(text, Tail(keywords))

RECURSIVE _extract_port(_, _)
\* QueryInterpreter._extract_port(text, keywords); the port is <<n>>, None
\* is NoInt.
_extract_port(text, keywords) ==
    IF Len(keywords) = 0 THEN Ret(NoInt)
    ELSE IF Len(re_search(re_keyword_port(keywords[1]), text, 1)) > 0
    THEN Then(py_int(group(re_search(re_keyword_port(keywords[1]), text, 1), 1)),
              LAMBDA n : Ret(<<n>>))
    ELSE _extract_port(text, Tail(keywords))

\* re.search(rf"\b{word}", text) for a word of word characters
search_word_start(word, text) ==
    \E i \in 1..(Len(text) - Len(word) + 1) :
        /\ SubSeq(text, i, i + Len(word) - 1) = word
        /\ (i = 1 \/ text[i - 1] \notin Word)

\* re.search(rf"\b{word}\b", text) for a word of word characters
search_word(word, text) ==
    \E i \in 1..(Len(text) - Len(word) + 1) :
        /\ SubSeq(text, i, i + Len(word) - 1) = word
        /\ (i = 1 \/ text[i - 1] \notin Word)
        /\ (i + Len(word) > Len(text) \/ text[i + Len(word)] \notin Word)

\* QueryInterpreter._extract_protocol(text)
_extract_protocol(text) ==
    IF search_word(<<"t", "c", "p">>, text) THEN <<"t", "c", "p">>
    ELSE IF search_word(<<"u", "d", "p">>, text) THEN <<"u", "d", "p">>
    ELSE IF search_word(<<"i", "c", "m", "p">>, text) THEN <<"i", "c", "m", "p">>
    ELSE None

\* QueryInterpreter._extract_direction(text)
_extract_direction(text) ==
    IF \E w \in {<<"i", "n", "c", "o", "m", "i", "n", "g">>, <<"i", "n", "b", "o", "u", "n", "d">>, <<"i", "n">>} : search_word(w, text) THEN "in"
    ELSE IF \E w \in {<<"o", "u", "t", "g", "o", "i", "n", "g">>, <<"o", "u", "t", "b", "o", "u", "n", "d">>, <<"o", "u", "t">>} : search_word(w, text) THEN "out"
    ELSE IF search_word_start(<<"f", "o", "r", "w", "a", "r", "d">>, text) THEN "forward"
    ELSE "in"

\* The body of QueryInterpreter.parse for the lower-cased, stripped text.
parse_lowered(text) ==
    Then(_extract_port(text, <<<<"f", "r", "o", "m", " ", "p", "o", "r", "t">>, <<"s", "o", "u", "r", "c", "e", " ", "p", "o", "r", "t">>, <<"s", "p", "o", "r", "t">>>>), LAMBDA src_port :
    Then(_extract_port(text, <<<<"t", "o", " ", "p", "o", "r", "t">>, <<"p", "o", "r", "t">>, <<"d", "e", "s", "t", "i", "n", "a", "t", "i", "o", "n", " ", "p", "o", "r", "t">>, <<"d", "p", "o", "r", "t">>, <<"o", "n", " ", "p", "o", "r", "t">>>>),
         LAMBDA dst_port :
        new_Query(_extract_ip(text, <<<<"f", "r", "o", "m">>, <<"s", "o", "u", "r", "c", "e">>>>),
                  _extract_ip(text, <<<<"t", "o">>, <<"d", "e", "s", "t", "i", "n", "a", "t", "i", "o", "n">>, <<"d", "e", "s", "t">>>>),
                  src_port, dst_port, _extract_protocol(text),
                  <<_extract_direction(text)>>)))

\* QueryInterpreter.parse(text)
parse(text) == parse_lowered(strip(Lower(text)))

-----------------------------------------------------------------------------
(* Query texts: an opening, a source phrase, a destination phrase and a    *)
(* protocol, each phrase with the port it states.                          *)

SourcePhrases ==
    {[words |-> <<"f", "r", "o", "m", " ", "p", "o", "r", "t", " ", "8", "0", "8", "0", " ">>, port |-> <<8080>>],
     [words |-> <<"s", "o", "u", "r", "c", "e", " ", "p", "o", "r", "t", " ", "8", "0", "8", "0", " ">>, port |-> <<8080>>],
     [words |-> <<"s", "p", "o", "r", "t", " ", "8", "0", "8", "0", " ">>, port |-> <<8080>>],
     [words |-> <<"f", "r", "o", "m", " ", "1", "9", "2", ".", "1", "6", "8", ".", "1", ".", "1", "0", " ", "s", "o", "u", "r", "c", "e", " ", "p", "o", "r", "t", " ", "1", "2", "3", "4", "5", " ">>, port |-> <<12345>>],
     [words |-> <<"f", "r", "o", "m", " ", "1", "9", "2", ".", "1", "6", "8", ".", "1", ".", "1", "0", " ">>, port |-> NoInt],
     [words |-> <<>>, port |-> NoInt]}

\* Destination phrases; later is TRUE for a plain 'port M' that follows the
\* destination address.
DestinationPhrases ==
    {[words |-> <<"t", "o", " ", "1", "0", ".", "0", ".", "0", ".", "5", " ", "p", "o", "r", "t", " ", "8", "0">>, port |-> <<80>>, later |-> TRUE],
     [words |-> <<"t", "o", " ", "1", "0", ".", "0", ".", "0", ".", "0", "/", "8", " ", "p", "o", "r", "t", " ", "4", "4", "3">>, port |-> <<443>>, later |-> TRUE],
     [words |-> <<"t", "o", " ", "p", "o", "r", "t", " ", "8", "0">>, port |-> <<80>>, later |-> FALSE],
     [words |-> <<"t", "o", " ", "1", "0", ".", "0", ".", "0", ".", "5", " ", "d", "p", "o", "r", "t", " ", "8", "0">>, port |-> <<80>>, later |-> FALSE],
     [words |-> <<"t", "o", " ", "1", "0", ".", "0", ".", "0", ".", "5", " ", "o", "n", " ", "p", "o", "r", "t", " ", "8", "0">>, port |-> <<80>>, later |-> FALSE],
     [words |-> <<"t", "o", " ", "1", "0", ".", "0", ".", "0", ".", "5">>, port |-> NoInt, later |-> FALSE],
     [words |-> <<"t", "o", " ", "1", "0", ".", "0", ".", "0", ".", "5", " ", "p", "o", "r", "t", " ", "7", "0", "0", "0", "0">>, port |-> <<70000>>, later |-> FALSE]}

InterpreterCalls ==
    [fn : {"parse"}, opening : {<<>>, <<"i", "n", "c", "o", "m", "i", "n", "g", " ", "t", "r", "a", "f", "f", "i", "c", " ">>, <<"O", "U", "T", "G", "O", "I", "N", "G", " ">>, <<" ", "f", "o", "r", "w", "a", "r", "d", "e", "d", " ">>},
     source : SourcePhrases, destination : DestinationPhrases,
     protocol : {<<>>, <<" ", "t", "c", "p">>, <<" ", "U", "D", "P">>, <<" ", "i", "c", "m", "p", "6">>}]

\* The text of a call.
QueryText(c) == c.opening \o c.source.words \o c.destination.words \o c.protocol

InitInterpreter ==
    /\ call \in InterpreterCalls
    /\ ret = Pending
    /\ rules = <<>>
    /\ query = NoQuery
    /\ result = Pending
    /\ redundant = Pending

\* QueryInterpreter.parse(text)
Parse ==
    /\ call.fn = "parse" /\ ret.exc = "pending"
    /\ ret' = parse(QueryText(call))
    /\ UNCHANGED <<call, rules, query, result, redundant>>

NextInterpreter == Parse

SpecInterpreter == InitInterpreter /\ [][NextInterpreter]_vars

\* C22 (as claimed): parse extracts the source port and the destination port
\* independently: for a text with a source-port phrase ('from port N',
\* 'source port N', 'sport N') and a later 'port M' phrase the Query has
\* src_port N and dst_port M.
C22_BothPorts ==
    (/\ Returned("parse")
     /\ call.source.port # NoInt
     /\ call.destination.later) =>
        /\ ret.exc = "none"
        /\ ret.value.src_port = call.source.port
        /\ ret.value.dst_port = call.destination.port

-----------------------------------------------------------------------------
(* Concurrent callers of one RuleEvaluator.  Each thread runs evaluate or  *)
(* find_redundant_rules one loop iteration at a time, and may call again   *)
(* after it returned.  rules is self.rules; call[t] is the frame of the    *)
(* call of thread t (its arguments, locals and position) and ret[t] what   *)
(* the call returned.                                                      *)

Threads == {1, 2}

\* The number of rules in the rule list of the shared evaluator.
MaxThreadRules == 2

ThreadRules ==
    {Rule("jump", T.input, None, None, None, None, None, 0),
     Rule("accept", T.input, None, None, None, None, None, 0),
     Rule("drop", T.input, None, None, None, T.p80, T.tcp, 0),
     Rule("accept", T.input, T.net8, None, None, None, None, 0),
     Rule("accept", T.input, T.net6, None, None, None, None, 0),
     Rule("accept", T.output, None, None, None, None, None, 0)}

ThreadQueries ==
    {Query(T.host10_1, None, NoInt, <<80>>, T.tcp, "in"),
     Query(None, None, NoInt, NoInt, None, "in"),
     Query(None, None, NoInt, NoInt, None, "out")}

\* A thread that is in no call.
Idle ==
    [fn |-> "none", pc |-> "idle", q |-> NoQuery, chain_name |-> <<>>, rel |-> <<>>,
     st |-> [matched_rules |-> <<>>, trace |-> <<>>, last_action |-> "None"],
     i |-> 0, j |-> 0, acc |-> <<>>, out |-> Pending]

\* Mutant of locals: the scan state is kept in one place for all calls (the
\* frame of thread 1) instead of in each call.
locals_on_evaluator(c, t) == [c[t] EXCEPT !.st = c[1].st]

\* The locals result, matched_rules and last_action of the call of thread t
\* among the frames c: each call has its own.
locals(c, t) == c[t]

\* evaluate up to its loop: the frame with chain_name, relevant_rules and
\* the scan state set.
evaluate_enter(rs, q) ==
    Let(_get_chain_for_direction(q.direction), LAMBDA chain_name :
    Let(relevant_rules(rs, chain_name), LAMBDA rel :
        [Idle EXCEPT !.fn = "evaluate", !.pc = "scan", !.q = q, !.chain_name = chain_name,
                     !.rel = rel, !.st = scan_start(rs, q, chain_name, rel)]))

\* One pass of `for rule in relevant_rules:` in the frame f; the loop is
\* left at a break or when no rule remains.
scan_step(f) ==
    IF Len(f.rel) = 0 THEN [f EXCEPT !.pc = "verdict"]
    ELSE IF ~_rule_matches_query(f.rel[1], f.q).value THEN [f EXCEPT !.rel = Tail(@)]
    ELSE IF breaks(f.rel[1].action)
    THEN [f EXCEPT !.st = on_match(@, f.rel[1]), !.pc = "verdict"]
    ELSE [f EXCEPT !.st = on_match(@, f.rel[1]), !.rel = Tail(@)]

\* "Determine verdict" and `return result` in the frame f.
evaluate_return(f) ==
    [f EXCEPT !.pc = "done", !.out = Ret(determine_verdict(f.st, f.chain_name))]

\* find_redundant_rules up to its loops.
redundant_enter == [Idle EXCEPT !.fn = "find_redundant_rules", !.pc = "pairs", !.i = 1, !.j = 2]

\* One pass of the inner loop of find_redundant_rules in the frame f, or
\* the step to the next rule1, or `return redundant`.
redundant_step(f, rs) ==
    IF f.i > Len(rs) THEN [f EXCEPT !.pc = "done", !.out = Ret(f.acc)]
    ELSE IF f.j > Len(rs) THEN [f EXCEPT !.i = @ + 1, !.j = f.i + 2]
    ELSE IF rs[f.i].chain # rs[f.j].chain THEN [f EXCEPT !.j = @ + 1]
    ELSE IF _rule_shadows(rs[f.i], rs[f.j]).exc # "none"
    THEN [f EXCEPT !.pc = "done", !.out = _rule_shadows(rs[f.i], rs[f.j])]
    ELSE IF _rule_shadows(rs[f.i], rs[f.j]).value
    THEN [f EXCEPT !.acc = Append(@, <<rs[f.i], rs[f.j]>>), !.j = @ + 1]
    ELSE [f EXCEPT !.j = @ + 1]

InitThreads ==
    /\ rules \in RuleLists(ThreadRules, MaxThreadRules)
    /\ call = [t \in Threads |-> Idle]
    /\ ret = [t \in Threads |-> Pending]
    /\ query = NoQuery
    /\ result = Pending
    /\ redundant = Pending

\* Thread t is in the frame f from now on.
Step(t, f) ==
    /\ call' = [call EXCEPT ![t] = f]
    /\ ret' = [ret EXCEPT ![t] = f.out]
    /\ UNCHANGED <<rules, query, result, redundant>>

\* Thread t calls evaluator.evaluate(q).
EvaluateCall(t) ==
    /\ call[t].pc \in {"idle", "done"}
    /\ \E q \in ThreadQueries : Step(t, evaluate_enter(rules, q))

\* Thread t runs one pass of the loop of evaluate.
EvaluateScan(t) ==
    /\ call[t].pc = "scan"
    /\ Step(t, scan_step(locals(call, t)))

\* Thread t determines the verdict and returns from evaluate.
EvaluateReturn(t) ==
    /\ call[t].pc = "verdict"
    /\ Step(t, evaluate_return(locals(call, t)))

\* Thread t calls evaluator.find_redundant_rules().
RedundantCall(t) ==
    /\ call[t].pc \in {"idle", "done"}
    /\ Step(t, redundant_enter)

\* Thread t runs one pass of the loops of find_redundant_rules.
RedundantStep(t) ==
    /\ call[t].pc = "pairs"
    /\ Step(t, redundant_step(call[t], rules))

NextThreads ==
    \E t \in Threads :
        \/ EvaluateCall(t)
        \/ EvaluateScan(t)
        \/ EvaluateReturn(t)
        \/ RedundantCall(t)
        \/ RedundantStep(t)

SpecThreads == InitThreads /\ [][NextThreads]_vars

-----------------------------------------------------------------------------
(* Properties of concurrent calls.                                         *)

\* a is an initial part of b.
IsPrefix(a, b) == Len(a) <= Len(b) /\ SubSeq(b, 1, Len(a)) = a

\* The call of thread t runs as it does alone: while evaluate scans, its
\* trace and matched_rules are initial parts of those of evaluate run alone
\* on the same rules and query, and what a call returned is what the call
\* returns alone.
RunsAsAlone(t) ==
    /\ (call[t].fn = "evaluate" /\ call[t].pc \in {"scan", "verdict"}) =>
        /\ IsPrefix(call[t].st.trace, evaluate(rules, call[t].q).value.trace)
        /\ IsPrefix(call[t].st.matched_rules, evaluate(rules, call[t].q).value.matched_rules)
    /\ (call[t].fn = "evaluate" /\ call[t].pc = "done") =>
        ret[t] = evaluate(rules, call[t].q)
    /\ (call[t].fn = "find_redundant_rules" /\ call[t].pc = "done") =>
        ret[t] = find_redundant_rules(rules)

\* C21: evaluate and find_redundant_rules keep no state and change nothing
\* they read: no step of a call changes the rule list or a Rule in it, and
\* in every interleaving of calls on one evaluator, also repeated calls,
\* each call returns what it returns when run alone, its trace and
\* matched_rules holding no entry of another call.
C21_CallsIndependent ==
    /\ [](\A t \in Threads : RunsAsAlone(t))
    /\ [][rules' = rules]_vars

\* C21 witness: thread 1 returned from evaluate with two matched rules while
\* thread 2 is inside the loop of evaluate for another query, with one rule
\* matched so far.
C21_Witness ==
    /\ call[1].fn = "evaluate" /\ call[1].pc = "done"
    /\ Len(ret[1].value.matched_rules) = 2
    /\ call[2].fn = "evaluate" /\ call[2].pc = "scan"
    /\ Len(call[2].st.matched_rules) = 1
    /\ call[2].q.src_ip # call[1].q.src_ip

\* The trace of the result res of evaluate(q): the three opening lines, one
\* line for each matched rule in the order of matched_rules, and the
\* default-policy line iff no rule matched.
TraceInOrder(res, q) ==
    /\ Len(res.trace) >= 3
    /\ res.trace[1] = <<"Evaluating query", q>>
    /\ res.trace[2] = <<"Total rules to check", Len(rules)>>
    /\ res.trace[3][1] = "Relevant rules for chain"
    /\ res.trace[3][3] = Cardinality({i \in 1..Len(rules) :
                                        ChainKey(rules[i].chain) = DirectionChain(q.direction)})
    /\ SubSeq(res.trace, 4, Len(res.trace))
         = [k \in 1..Len(res.matched_rules) |->
               <<"Rule matches", res.matched_rules[k].line_number, res.matched_rules[k].action,
                 res.matched_rules[k].source, res.matched_rules[k].destination,
                 res.matched_rules[k].sport, res.matched_rules[k].dport>>]
            \o (IF res.matched_rules = <<>>
                THEN << <<"Default policy would apply (usually ACCEPT)">> >> ELSE <<>>)
    /\ \A k \in 1..(Len(res.matched_rules) - 1) :
          res.matched_rules[k].line_number < res.matched_rules[k + 1].line_number

\* A step of thread t inside evaluate leaves the trace lines written so far
\* in place and adds lines after them only.
TraceAppended(t) ==
    (call[t].pc \in {"scan", "verdict"}) =>
        IF call'[t].pc = "done"
        THEN IsPrefix(call[t].st.trace, ret'[t].value.trace)
        ELSE IsPrefix(call[t].st.trace, call'[t].st.trace)

\* C24: the trace of evaluate is append-only and in operation order: the
\* query line, the total-rules line and the relevant-rules line, then one
\* 'Rule N matches' line for each matched rule in the order of
\* matched_rules, which is the order of the rules in the chain, then the
\* default-policy line iff no rule matched; no line is reordered, removed
\* or duplicated.
C24_TraceOrder ==
    /\ [](\A t \in Threads :
            (call[t].fn = "evaluate" /\ call[t].pc = "done")
            => TraceInOrder(ret[t].value, call[t].q))
    /\ [][\A t \in Threads : TraceAppended(t)]_vars

\* C24 witness: evaluate returned a trace of five lines with two matched
\* rules to thread 1 and a trace that ends with the default-policy line to
\* thread 2.
C24_Witness ==
    /\ call[1].fn = "evaluate" /\ call[1].pc = "done"
    /\ Len(ret[1].value.matched_rules) = 2 /\ Len(ret[1].value.trace) = 5
    /\ call[2].fn = "evaluate" /\ call[2].pc = "done"
    /\ ret[2].value.matched_rules = <<>> /\ Len(ret[2].value.trace) = 4

====
